---- MODULE Spec2Model ----
(***************************************************************************)
(* Verification model of the mail MCP server (src/src/index.ts,            *)
(* src/src/imap-client.ts): federated multi-mailbox search, the date       *)
(* filter, and IMAP connection management.                                 *)
(*                                                                         *)
(* Time is counted in milliseconds since the Unix epoch, as a JavaScript   *)
(* Date does.  Days are small day numbers (day 0 = 1970-01-01).            *)
(***************************************************************************)
EXTENDS Integers, Sequences, FiniteSets, TLC

\* ------------------------------------------------------------------ bounds
MaxInbox   == 2   \* messages the search matches in INBOX, at most
MaxSent    == 1   \* messages the search matches in a sent folder, at most
MaxFaults  == 1   \* transient protocol failures the server may inject
MaxClients == 2   \* IMAPClient objects created in one behaviour, at most
NumCalls   == 2   \* tool invocations that may be pending at the same time

\* --------------------------------------------------------------- time base
SecMs  == 1000
HourMs == 60 * 60 * SecMs
DayMs  == 24 * HourMs

\* Offsets (hours east of UTC) of the zones the process may run in.
TZOffsets == {0 - 5, 0, 8}

\* Offset of Asia/Shanghai, the zone fetchMessages formats dates in.
ShanghaiOffsetMs == 8 * HourMs

\* floor division and modulo that are right for negative instants too
FloorDiv(a, b) == IF a >= 0 THEN a \div b ELSE 0 - ((0 - a + b - 1) \div b)
FloorMod(a, b) == a - b * FloorDiv(a, b)

\* ------------------------------------------------------------ date strings
\* A date string is a record [fmt, day, sec]:
\*   "empty"   ''                      (argument absent, or message.date = '')
\*   "ymd"     YYYY-MM-DD              (ISO date: parsed as UTC midnight)
\*   "dMonY"   DD-Mon-YYYY             (parsed as local midnight)
\*   "ymdThms" YYYY-MM-DDTHH:mm:ss     (ISO date-time without zone: local time)
\*   "zhCN"    YYYY/MM/DD HH:mm:ss     (what toLocaleString('zh-CN') yields)
\*   "invalid" text that Date cannot parse
EmptyStr   == [fmt |-> "empty", day |-> 0, sec |-> 0]
InvalidStr == [fmt |-> "invalid", day |-> 0, sec |-> 0]
Ymd(d)        == [fmt |-> "ymd", day |-> d, sec |-> 0]
DMonY(d)      == [fmt |-> "dMonY", day |-> d, sec |-> 0]
YmdThms(d, s) == [fmt |-> "ymdThms", day |-> d, sec |-> s]
ZhCN(d, s)    == [fmt |-> "zhCN", day |-> d, sec |-> s]

\* A JavaScript Date: an instant, or Invalid Date (getTime() is NaN).
ValidDate(t) == [valid |-> TRUE, t |-> t]
InvalidDate  == [valid |-> FALSE, t |-> 0]

\* new Date(string) in a process whose zone is tzh hours east of UTC.
NewDate(s, tzh) ==
  CASE s.fmt = "ymd"     -> ValidDate(s.day * DayMs)
    [] s.fmt = "dMonY"   -> ValidDate(s.day * DayMs - tzh * HourMs)
    [] s.fmt = "ymdThms" -> ValidDate(s.day * DayMs + s.sec * SecMs - tzh * HourMs)
    [] s.fmt = "zhCN"    -> ValidDate(s.day * DayMs + s.sec * SecMs - tzh * HourMs)
    [] OTHER             -> InvalidDate

\* Date.prototype.setHours(23, 59, 59, 999): the last millisecond of the LOCAL
\* calendar day the instant lies in.
SetHoursEndOfDay(t, tzh) ==
  FloorDiv(t + tzh * HourMs, DayMs) * DayMs + (DayMs - 1) - tzh * HourMs

\* date.toLocaleString('zh-CN', {timeZone: 'Asia/Shanghai', ...2-digit}):
\* the Shanghai wall clock, to the second.
ToLocaleStringZhCN(t) ==
  LET wall == t + ShanghaiOffsetMs
  IN  ZhCN(FloorDiv(wall, DayMs), FloorMod(wall, DayMs) \div SecMs)

\* isDateOnly: the three date-only patterns (the third, 'Mon D, YYYY', parses
\* like dMonY and is folded into it).
isDateOnly(s) == s.fmt \in {"ymd", "dMonY"}

\* ---------------------------------------------------------------- strings
\* A string is the sequence of its characters.
UpperCase == <<"A", "B", "C", "D", "E", "F", "G", "H", "I", "J", "K", "L", "M",
               "N", "O", "P", "Q", "R", "S", "T", "U", "V", "W", "X", "Y", "Z">>
LowerCase == <<"a", "b", "c", "d", "e", "f", "g", "h", "i", "j", "k", "l", "m",
               "n", "o", "p", "q", "r", "s", "t", "u", "v", "w", "x", "y", "z">>

\* String.prototype.toLowerCase
LowerChar(ch) ==
  IF \E i \in DOMAIN UpperCase : UpperCase[i] = ch
  THEN LowerCase[CHOOSE i \in DOMAIN UpperCase : UpperCase[i] = ch]
  ELSE ch
toLowerCase(str) == [i \in DOMAIN str |-> LowerChar(str[i])]

\* String.prototype.trim, and the \s* of a regular expression
RECURSIVE TrimLeft(_)
TrimLeft(str) ==
  IF str # <<>> /\ Head(str) = " " THEN TrimLeft(Tail(str)) ELSE str
RECURSIVE TrimRight(_)
TrimRight(str) ==
  IF str # <<>> /\ str[Len(str)] = " "
  THEN TrimRight(SubSeq(str, 1, Len(str) - 1)) ELSE str
trim(str) == TrimRight(TrimLeft(str))

\* String.prototype.includes
includes(str, part) ==
  \E i \in 0..(Len(str) - Len(part)) : SubSeq(str, i + 1, i + Len(part)) = part

\* String.prototype.split(/\s+/)
RECURSIVE SplitWords(_, _)
SplitWords(str, word) ==
  IF str = <<>> THEN <<word>>
  ELSE IF Head(str) = " "
       THEN <<word>> \o SplitWords(TrimLeft(str), <<>>)
       ELSE SplitWords(Tail(str), Append(word, Head(str)))
split(str) == SplitWords(str, <<>>)

\* The subjects of the messages modelled.
SubjEmpty     == <<>>
SubjNoSubject == <<"N", "o", " ", "S", "u", "b", "j", "e", "c", "t">>
SubjProjectX  == <<"P", "r", "o", "j", "e", "c", "t", " ", "X">>
SubjReProject == <<"R", "e", ":", " ", "P", "r", "o", "j", "e", "c", "t", " ", "X">>
SubjThread    == <<"R", "E", ":", " ", "p", "r", "o", "j", "e", "c", "t", " ", "x", " ", "u", "p", "d", "a", "t", "e">>
SubjHi        == <<"H", "i">>
SubjReHi      == <<"R", "e", ":", " ", "H", "i">>
SubjOther     == <<"L", "u", "n", "c", "h">>
SubjParseFailed == <<"P", "a", "r", "s", "e", " ", "F", "a", "i", "l", "e", "d">>
SubjBudget    == <<"B", "u", "d", "g", "e", "t", " ", "r", "e", "v", "i", "e", "w", " ", "m", "e", "e", "t", "i", "n", "g", " ", "n", "o", "t", "e", "s">>
SubjNotes     == <<"N", "o", "t", "e", "s", " ", "a", "b", "o", "u", "t", " ", "b", "u", "d", "g", "e", "t">>
SubjMeeting   == <<"M", "e", "e", "t", "i", "n", "g", " ", "t", "o", "m", "o", "r", "r", "o", "w">>
SubjReBudget  == <<"R", "e", ":", " ", "B", "u", "d", "g", "e", "t">>
SubjReReHi    == <<"R", "e", ":", " ", "R", "e", ":", " ", "H", "i">>
SubjSwapped   == <<"X", " ", "P", "r", "o", "j", "e", "c", "t">>

\* Mail addresses: the account itself, the correspondent the searches are
\* about, and two other people.
Me     == "me@example.com"
Sender == "alice@example.com"
Bob    == "bob@example.com"
Carol  == "carol@example.com"

\* ------------------------------------------------------------------ names
\* COMMON_SENT_MAILBOX_NAMES; the sixth name is the Chinese word for "sent"
\* (U+5DF2 U+53D1 U+9001), written in ASCII here.
COMMON_SENT_MAILBOX_NAMES ==
  <<"INBOX.Sent", "Sent", "SENT", "Sent Items", "Sent Messages", "Sent_zh">>

Range(f) == {f[i] : i \in DOMAIN f}
SentNameSet == Range(COMMON_SENT_MAILBOX_NAMES)

NoBox == "null"          \* currentBox === null, or no mailbox selected
Calls == 1..NumCalls
ClientIds == 1..MaxClients
NoClient == 0            \* this.imapClient === null

VARIABLES
  tz,             \* zone offset of the process, hours east of UTC
  now,            \* the clock new Date() reads
  srvInbox,       \* server: messages of INBOX the search criterion matches
  srvSent,        \* server: messages of a sent folder the criterion matches
  srvExists,      \* server: the sent-folder names that exist
  faults,         \* transient failures the server/network may still inject
  imapClient,     \* MailMCPServer.imapClient (a client id, or NoClient)
  smtpClient,     \* MailMCPServer.smtpClient: "null", or the state of the client
  isInitializing, \* MailMCPServer.isInitializing
  clients,        \* the IMAPClient objects
  nClients,       \* IMAPClient objects created so far
  pc,             \* per invocation: the await it is suspended at
  tool,           \* per invocation: the tool called
  args,           \* per invocation: its arguments
  loc,            \* per invocation: the locals of the running handler
  result          \* per invocation: what the request handler returned

vars == <<tz, now, srvInbox, srvSent, srvExists, faults, imapClient,
          smtpClient, isInitializing, clients, nClients, pc, tool, args, loc,
          result>>

envVars == <<tz, now, srvInbox, srvSent, srvExists>>

\* ----------------------------------------------------------------- server
\* One message on the server: its uid and its INTERNALDATE attribute, which
\* the fetch may deliver (hasDate) or not; whether it is from the
\* correspondent or addressed to the correspondent (dir); its Subject, From,
\* To and Cc headers.
SrvMail(u, h, t, d, subj, f, to, cc) ==
  [uid |-> u, hasDate |-> h, date |-> t, dir |-> d, subject |-> subj,
   from |-> f, to |-> to, cc |-> cc, parses |-> TRUE]

\* The same message in a form the mail parser throws on.
Malformed(m) == [m EXCEPT !.parses = FALSE]

\* A message received from the correspondent.
SrvMsg(u, h, t) ==
  SrvMail(u, h, t, "from", SubjProjectX, <<Sender>>, <<Me>>, <<>>)

MailboxExists(name) == name = "INBOX" \/ name \in srvExists

\* Messages of the named mailbox.
MailboxContent(name) == IF name = "INBOX" THEN srvInbox ELSE srvSent

\* The keyword search_by_subject is asked for.
SubjectKeyword == <<"p", "r", "o", "j", "e", "c", "t">>

\* The server side of SEARCH: ['FROM', sender] matches the messages from the
\* correspondent, ['TO', sender] those addressed to the correspondent,
\* ['SUBJECT', subject] those whose subject contains the keyword, in any
\* letter case, and ['UNSEEN', ['FROM', sender]] the unread messages from
\* the correspondent (every message modelled is unread).
Matching(criteria, msgs) ==
  IF criteria = "SUBJECT"
  THEN SelectSeq(msgs, LAMBDA m : includes(toLowerCase(m.subject), SubjectKeyword))
  ELSE LET wanted == IF criteria \in {"FROM", "UNSEEN FROM"} THEN "from" ELSE "to"
       IN  SelectSeq(msgs, LAMBDA m : m.dir = wanted)

\* ------------------------------------------------------------ IMAPClient
\* Fields of an IMAPClient: imap (this.imap !== null), connected,
\* authenticated, currentBox; promise is the state of the promise connect()
\* returned; selected/readOnly are the mailbox the connection has selected,
\* as the IMAP library tracks it.
FreshClient ==
  [imap |-> FALSE, connected |-> FALSE, authenticated |-> FALSE,
   currentBox |-> NoBox, promise |-> "none", selected |-> NoBox,
   readOnly |-> TRUE]

isConnected(k) == clients[k].connected /\ clients[k].authenticated

\* An outcome of one protocol call: whether it succeeded, the error message,
\* the value it returned, and the client objects and fault budget after it.
Outcome(ok, err, val, cl, fl) ==
  [ok |-> ok, err |-> err, val |-> val, cl |-> cl, fl |-> fl]

\* IMAPClient.openBox(boxName, readOnly) on client k, given the client
\* objects cl and the fault budget fl.  A failed SELECT leaves the connection
\* with no mailbox selected, while currentBox keeps its old value.
openBox(k, boxName, readOnly, cl, fl) ==
  IF k = NoClient
  THEN {Outcome(FALSE, "Cannot read properties of null", <<>>, cl, fl)}
  ELSE IF ~cl[k].imap \/ ~cl[k].authenticated
  THEN {Outcome(FALSE, "Not connected or authenticated", <<>>, cl, fl)}
  ELSE LET opened == [cl EXCEPT ![k].currentBox = boxName,
                                ![k].selected = boxName,
                                ![k].readOnly = readOnly]
           failed == [cl EXCEPT ![k].selected = NoBox]
       IN  (IF MailboxExists(boxName)
            THEN {Outcome(TRUE, "", <<>>, opened, fl)}
            ELSE {Outcome(FALSE, "Failed to open mailbox", <<>>, failed, fl)})
           \cup
           (IF fl > 0 /\ MailboxExists(boxName)
            THEN {Outcome(FALSE, "Failed to open mailbox", <<>>, failed, fl - 1)}
            ELSE {})

\* The guard search and fetchMessages share: this.imap must be set, and with
\* no currentBox INBOX is opened first (read-only).
AutoOpenInbox(k, cl, fl) ==
  IF k = NoClient
  THEN {Outcome(FALSE, "Cannot read properties of null", <<>>, cl, fl)}
  ELSE IF ~cl[k].imap
  THEN {Outcome(FALSE, "Not connected to IMAP server", <<>>, cl, fl)}
  ELSE IF cl[k].currentBox = NoBox
  THEN openBox(k, "INBOX", TRUE, cl, fl)
  ELSE {Outcome(TRUE, "", <<>>, cl, fl)}

\* The command itself, once the guard passed with outcome o: it fails when
\* the connection has no mailbox selected, or by a transient fault;
\* otherwise it returns val(selected mailbox).
Uids(msgs) == [i \in DOMAIN msgs |-> msgs[i].uid]

search(k, criteria, cl, fl) ==
  UNION { IF ~o.ok THEN {o}
          ELSE IF o.cl[k].selected = NoBox
          THEN {Outcome(FALSE, "No mailbox is currently selected", <<>>, o.cl, o.fl)}
          ELSE {Outcome(TRUE, "",
                        Uids(Matching(criteria, MailboxContent(o.cl[k].selected))),
                        o.cl, o.fl)}
               \cup (IF o.fl > 0
                     THEN {Outcome(FALSE, "Search failed", <<>>, o.cl, o.fl - 1)}
                     ELSE {})
        : o \in AutoOpenInbox(k, cl, fl) }

\* SelectSeq with a filter that may read the reading context
RECURSIVE FilterSeq(_, _)
FilterSeq(seq, keep) ==
  IF seq = <<>> THEN <<>>
  ELSE IF Head(seq) \in keep
       THEN <<Head(seq)>> \o FilterSeq(Tail(seq), keep)
       ELSE FilterSeq(Tail(seq), keep)

\* extractEmailAddress(parsedMail.to): of the addresses of a header the
\* first one is kept ('' when there is none).
FirstAddress(addrs) == IF addrs = <<>> THEN "" ELSE Head(addrs)

\* data.headers['to']: the text of a raw header, all its addresses.
RECURSIVE RawHeader(_)
RawHeader(addrs) ==
  IF addrs = <<>> THEN ""
  ELSE IF Len(addrs) = 1 THEN addrs[1]
  ELSE addrs[1] \o ", " \o RawHeader(Tail(addrs))

\* The record fetchMessages builds for one message: uid and date from the
\* 'attributes' handler, date = (attrs.date || new Date()) formatted in
\* Asia/Shanghai; subject and addresses from the parsed mail, or, when the
\* parser threw, from the raw headers.
NormalizeMessage(m, nowv) ==
  IF m.parses
  THEN [uid |-> m.uid,
        date |-> ToLocaleStringZhCN(IF m.hasDate THEN m.date ELSE nowv),
        sourceMailbox |-> "",
        subject |-> IF m.subject = <<>> THEN SubjNoSubject ELSE m.subject,
        from |-> FirstAddress(m.from),
        to |-> FirstAddress(m.to),
        cc |-> FirstAddress(m.cc)]
  ELSE [uid |-> m.uid,
        date |-> ToLocaleStringZhCN(IF m.hasDate THEN m.date ELSE nowv),
        sourceMailbox |-> "",
        subject |-> IF m.subject = <<>> THEN SubjParseFailed ELSE m.subject,
        from |-> RawHeader(m.from),
        to |-> RawHeader(m.to),
        cc |-> RawHeader(m.cc)]

\* A parse loop that leaves out the messages the parser threw on
ParsedOnly(got, nowv) ==
  LET fine == SelectSeq(got, LAMBDA m : m.parses)
  IN  [i \in DOMAIN fine |-> NormalizeMessage(fine[i], nowv)]

\* The loop of the fetch 'end' handler: one record for every message that
\* was delivered.
ParseAll(got, nowv) == [i \in DOMAIN got |-> NormalizeMessage(got[i], nowv)]

\* IMAPClient.fetchMessages(uids): one record per message of the selected
\* mailbox whose uid is asked for, in the order the server delivers them.
fetchMessages(k, uids, nowv, cl, fl) ==
  UNION { IF ~o.ok THEN {o}
          ELSE IF uids = <<>>
          THEN {Outcome(TRUE, "", <<>>, o.cl, o.fl)}
          ELSE IF o.cl[k].selected = NoBox
          THEN {Outcome(FALSE, "No mailbox is currently selected", <<>>, o.cl, o.fl)}
          ELSE LET box == MailboxContent(o.cl[k].selected)
                   got == FilterSeq(box, {m \in Range(box) : m.uid \in Range(uids)})
               IN  {Outcome(TRUE, "", ParseAll(got, nowv), o.cl, o.fl)}
                   \cup (IF o.fl > 0
                         THEN {Outcome(FALSE, "Fetch failed", <<>>, o.cl, o.fl - 1)}
                         ELSE {})
        : o \in AutoOpenInbox(k, cl, fl) }

\* ------------------------------------------------------- date-range filter
\* The parsed bound: null (skipped) when the argument is '' or unparseable.
NullDate == [set |-> FALSE, t |-> 0]
SomeDate(t) == [set |-> TRUE, t |-> t]

\* A start bound that is used although it did not parse
ParseStartUnchecked(startDate, tzh) ==
  IF startDate.fmt = "empty" THEN NullDate
  ELSE IF ~NewDate(startDate, tzh).valid THEN SomeDate(20 * DayMs)
  ELSE SomeDate(NewDate(startDate, tzh).t)

\* lines 129-138: start = new Date(startDate), null when it is not a date
ParseStart(startDate, tzh) ==
  IF startDate.fmt = "empty" THEN NullDate
  ELSE IF ~NewDate(startDate, tzh).valid THEN NullDate
  ELSE SomeDate(NewDate(startDate, tzh).t)

ParseEnd(endDate, tzh) ==
  IF endDate.fmt = "empty" THEN NullDate
  ELSE IF ~NewDate(endDate, tzh).valid THEN NullDate
  ELSE IF isDateOnly(endDate)
       THEN SomeDate(SetHoursEndOfDay(NewDate(endDate, tzh).t, tzh))
       ELSE SomeDate(NewDate(endDate, tzh).t)

\* The predicate of messages.filter(...)
KeepMessage(msg, start, end, tzh) ==
  IF msg.date.fmt = "empty" THEN TRUE
  ELSE LET msgDate == NewDate(msg.date, tzh)
       IN  IF ~msgDate.valid THEN TRUE
           ELSE IF start.set /\ msgDate.t < start.t THEN FALSE
           ELSE IF end.set /\ msgDate.t > end.t THEN FALSE
           ELSE TRUE

filterMessagesByDateRange(messages, startDate, endDate, tzh) ==
  IF startDate.fmt = "empty" /\ endDate.fmt = "empty" THEN messages
  ELSE LET start == ParseStart(startDate, tzh)
           end   == ParseEnd(endDate, tzh)
       IN  FilterSeq(messages,
                     {m \in Range(messages) : KeepMessage(m, start, end, tzh)})

\* ------------------------------------------------------------------- sort
\* new Date(a.date || 0).getTime()
SortTime(msg, tzh) ==
  IF msg.date.fmt = "empty" THEN ValidDate(0) ELSE NewDate(msg.date, tzh)

\* A comparator that puts the older message first
CompareAsc(a, b, tzh) ==
  IF SortTime(a, tzh).valid /\ SortTime(b, tzh).valid
  THEN SortTime(a, tzh).t - SortTime(b, tzh).t
  ELSE 0

\* The comparator dateB.getTime() - dateA.getTime(); NaN counts as 0.
CompareDesc(a, b, tzh) ==
  IF SortTime(a, tzh).valid /\ SortTime(b, tzh).valid
  THEN SortTime(b, tzh).t - SortTime(a, tzh).t
  ELSE 0

\* Array.prototype.sort is stable: m goes after every element that does not
\* compare greater than it.
RECURSIVE InsertSorted(_, _, _)
InsertSorted(sorted, m, tzh) ==
  IF sorted = <<>> THEN <<m>>
  ELSE IF CompareDesc(Head(sorted), m, tzh) > 0
       THEN <<m>> \o sorted
       ELSE <<Head(sorted)>> \o InsertSorted(Tail(sorted), m, tzh)

RECURSIVE SortByDateDesc(_, _)
SortByDateDesc(messages, tzh) ==
  IF messages = <<>> THEN <<>>
  ELSE InsertSorted(SortByDateDesc(SubSeq(messages, 1, Len(messages) - 1), tzh),
                    messages[Len(messages)], tzh)

\* ------------------------------------------------- searchInMultipleMailboxes
NoResult == [kind |-> "none"]

\* EmailOptions: the recipients and the subject of an outgoing mail.
EmailOptions(to, cc, subject) == [to |-> to, cc |-> cc, subject |-> subject]
NoMail == EmailOptions(<<>>, <<>>, <<>>)

\* Locals of a running handler.
LocInit ==
  [criteria |-> "FROM", fromResult |-> NoResult, sentIdx |-> 1, sentBoxFound |-> FALSE, mailboxesToSearch |-> <<"INBOX">>,
   probes |-> <<>>, mbIdx |-> 1, uids |-> <<>>, mailboxesSearched |-> <<>>,
   messages |-> <<>>, awaiting |-> NoClient, imapLine |-> "",
   findIdx |-> 0, mail |-> NoMail, sent |-> FALSE, messageId |-> "",
   saveError |-> "not attempted", tried |-> <<>>,
   currentlyOpen |-> NoBox, sentFound |-> FALSE]

ErrorResult(text) == [kind |-> "error", text |-> text]

\* A discovery step that pushes INBOX once more
ProbeStepInbox(l, sentName, ok) ==
  [l EXCEPT !.mailboxesToSearch = IF ok THEN Append(@, "INBOX") ELSE @,
            !.sentBoxFound = ok \/ @,
            !.sentIdx = @ + 1,
            !.probes = Append(@, [name |-> sentName, ok |-> ok])]

\* One iteration of the discovery loop: openBox(sentName, true) succeeded
\* (ok) or threw; on success the name is pushed and sentBoxFound is set.
\* probes is the history of the openBox calls the loop has made.
ProbeStep(l, sentName, ok) ==
  [l EXCEPT !.mailboxesToSearch = IF ok THEN Append(@, sentName) ELSE @,
            !.sentBoxFound = ok \/ @,
            !.sentIdx = @ + 1,
            !.probes = Append(@, [name |-> sentName, ok |-> ok])]

\* The loop without its break statement
ProbeNoBreak(l) == l.sentIdx > Len(COMMON_SENT_MAILBOX_NAMES)

\* The discovery loop ends at the break or after the last name.
ProbeDone(l) ==
  l.sentBoxFound \/ l.sentIdx > Len(COMMON_SENT_MAILBOX_NAMES)

\* messages.map(msg => ({...msg, sourceMailbox: mailboxName}))
TagMailbox(messages, mailboxName) ==
  [i \in DOMAIN messages |-> [messages[i] EXCEPT !.sourceMailbox = mailboxName]]

MailboxResult(mailbox, uids, count, error) ==
  [mailbox |-> mailbox, matchingUIDs |-> uids, messageCount |-> count,
   error |-> error]

\* End of the try block for one mailbox: the fetched messages (none when the
\* search matched nothing) are tagged, date-filtered and pushed, and the
\* mailbox's entry is recorded.
OnMailboxDone(l, mailboxName, fetched, startDate, endDate, tzh) ==
  LET tagged == TagMailbox(fetched, mailboxName)
      kept   == IF startDate.fmt # "empty" \/ endDate.fmt # "empty"
                THEN filterMessagesByDateRange(tagged, startDate, endDate, tzh)
                ELSE tagged
  IN  [l EXCEPT !.messages = @ \o kept,
                !.mailboxesSearched =
                   Append(@, MailboxResult(mailboxName, Uids(kept), Len(kept), <<>>)),
                !.mbIdx = @ + 1, !.uids = <<>>]

\* A catch block that records the error and gives up the remaining mailboxes
OnMailboxErrorAbort(l, mailboxName, err) ==
  [l EXCEPT !.mailboxesSearched =
               Append(@, MailboxResult(mailboxName, <<>>, 0,
                                       <<"Failed to search: ", err>>)),
            !.mbIdx = Len(l.mailboxesToSearch) + 1, !.uids = <<>>]

\* The catch block for one mailbox: the error is recorded and the loop goes
\* on with the next mailbox.
OnMailboxError(l, mailboxName, err) ==
  [l EXCEPT !.mailboxesSearched =
               Append(@, MailboxResult(mailboxName, <<>>, 0,
                                       <<"Failed to search: ", err>>)),
            !.mbIdx = @ + 1, !.uids = <<>>]

SearchLoopDone(l) == l.mbIdx > Len(l.mailboxesToSearch)

\* The raw search hits of the mailboxes searched without error
RECURSIVE RawHits(_)
RawHits(entries) ==
  IF entries = <<>> THEN 0
  ELSE (IF Head(entries).error = <<>>
        THEN Len(Matching("FROM", MailboxContent(Head(entries).mailbox)))
        ELSE 0)
       + RawHits(Tail(entries))
TotalMatchesRaw(l) == RawHits(l.mailboxesSearched)

\* searchResults.totalMatches = searchResults.messages.length
TotalMatches(l) == Len(l.messages)

\* A warning that is attached whatever the discovery loop found
WarningAlways(l) == TRUE

\* The warning is set when no sent folder was found.
Warning(l) == ~l.sentBoxFound

\* Lines 261-286: total, sort, note and warning; then handleSearchBySender
\* returns the result as JSON.
SearchResult(l, tzh) ==
  [kind |-> "search",
   mailboxesSearched |-> l.mailboxesSearched,
   totalMatches |-> TotalMatches(l),
   messages |-> SortByDateDesc(l.messages, tzh),
   note |-> IF TotalMatches(l) > 0 THEN "Found and retrieved"
            ELSE "No messages found in any of the searched mailboxes",
   warning |-> IF Warning(l)
               THEN "Could not find sent mailbox - only searched INBOX"
               ELSE ""]

\* What the handler makes of the result of searchInMultipleMailboxes before
\* it returns it: handleSearchUnreadFromSender replaces the note.
HandlerResult(t, r) ==
  IF t = "search_unread_from_sender"
  THEN [r EXCEPT !.note = "By default, all criteria are ANDed together"]
  ELSE r

\* ----------------------------------------------------------- reply detection
\* The replace() of cleanReplySubject: one leading "re:" in any letter case
\* and the white space after it are removed.  (The two Chinese markers of
\* the pattern do not occur in the subjects modelled.)
StripReplyMarker(subject) ==
  IF /\ Len(subject) >= 3
     /\ LowerChar(subject[1]) = "r"
     /\ LowerChar(subject[2]) = "e"
     /\ subject[3] = ":"
  THEN TrimLeft(SubSeq(subject, 4, Len(subject)))
  ELSE subject

cleanReplySubject(subject) ==
  IF subject = <<>> THEN <<>> ELSE trim(StripReplyMarker(subject))

\* this.cleanReplySubject(msg.subject || '').toLowerCase()
CleanLower(msg) == toLowerCase(cleanReplySubject(msg.subject))

\* A date test that accepts a later message only within seven days
DateSoonAfter(a, b, tzh) ==
  /\ NewDate(a.date, tzh).valid
  /\ NewDate(b.date, tzh).valid
  /\ NewDate(a.date, tzh).t > NewDate(b.date, tzh).t
  /\ NewDate(a.date, tzh).t <= NewDate(b.date, tzh).t + 7 * DayMs

\* sentDate > originalDate on two Date objects (false when either is invalid)
DateAfter(a, b, tzh) ==
  /\ NewDate(a.date, tzh).valid
  /\ NewDate(b.date, tzh).valid
  /\ NewDate(a.date, tzh).t > NewDate(b.date, tzh).t

\* split(/\s+/).filter(word => word.length > 3)
KeyWords(str) == SelectSeq(split(str), LAMBDA w : Len(w) > 3)

\* Math.min(2, Math.ceil(n / 2))
WordThreshold(n) == IF (n + 1) \div 2 < 2 THEN (n + 1) \div 2 ELSE 2

isLikelyReplyByContent(originalMessage, potentialReply) ==
  LET originalSubject == CleanLower(originalMessage)
      replySubject    == CleanLower(potentialReply)
      originalWords   == KeyWords(originalSubject)
      replyWords      == KeyWords(replySubject)
      commonWords     == SelectSeq(originalWords,
                                   LAMBDA w : w \in Range(replyWords))
  IN  IF originalSubject = replySubject /\ Len(originalSubject) > 0 THEN TRUE
      ELSE IF Len(originalSubject) > 5 /\ includes(replySubject, originalSubject)
      THEN TRUE
      ELSE IF Len(originalWords) > 0 /\ Len(replyWords) > 0
      THEN Len(commonWords) >= WordThreshold(Len(originalWords))
      ELSE FALSE

\* A window of twenty days
TimeWindowWide == 20 * DayMs

\* const timeWindowMs = 7 * 24 * 60 * 60 * 1000
TimeWindowMs == 7 * DayMs

\* A predicate that accepts a matching sent message whatever its date
RepliedAnyDate(originalMessage, sentMessages, tzh) ==
  \E i \in DOMAIN sentMessages :
    \/ /\ CleanLower(sentMessages[i]) = CleanLower(originalMessage)
       /\ Len(CleanLower(originalMessage)) > 0
    \/ /\ Len(CleanLower(originalMessage)) > 3
       /\ includes(CleanLower(sentMessages[i]), CleanLower(originalMessage))
    \/ isLikelyReplyByContent(originalMessage, sentMessages[i])

\* isMessageReplied: the three strategies, in order.
isMessageReplied(originalMessage, sentMessages, tzh) ==
  LET originalSubject == CleanLower(originalMessage)
      exactSubjectReplies ==
        SelectSeq(sentMessages, LAMBDA sentMsg :
          /\ DateAfter(sentMsg, originalMessage, tzh)
          /\ CleanLower(sentMsg) = originalSubject
          /\ Len(CleanLower(sentMsg)) > 0)
      threadReplies ==
        SelectSeq(sentMessages, LAMBDA sentMsg :
          /\ DateAfter(sentMsg, originalMessage, tzh)
          /\ includes(CleanLower(sentMsg), originalSubject)
          /\ CleanLower(sentMsg) # originalSubject)
      timeWindowReplies ==
        SelectSeq(sentMessages, LAMBDA sentMsg :
          /\ DateAfter(sentMsg, originalMessage, tzh)
          /\ NewDate(sentMsg.date, tzh).t
               <= NewDate(originalMessage.date, tzh).t + TimeWindowMs
          /\ isLikelyReplyByContent(originalMessage, sentMsg))
  IN  IF Len(exactSubjectReplies) > 0 THEN TRUE
      ELSE IF Len(originalSubject) > 3 /\ Len(threadReplies) > 0 THEN TRUE
      ELSE Len(timeWindowReplies) > 0

\* [...messages].sort((a, b) => new Date(a.date) - new Date(b.date)): a
\* stable sort, oldest first.
RECURSIVE InsertByDate(_, _, _)
InsertByDate(sorted, m, tzh) ==
  IF sorted = <<>> THEN <<m>>
  ELSE IF NewDate(Head(sorted).date, tzh).t - NewDate(m.date, tzh).t > 0
       THEN <<m>> \o sorted
       ELSE <<Head(sorted)>> \o InsertByDate(Tail(sorted), m, tzh)

RECURSIVE SortByDateAsc(_, _)
SortByDateAsc(messages, tzh) ==
  IF messages = <<>> THEN <<>>
  ELSE InsertByDate(SortByDateAsc(SubSeq(messages, 1, Len(messages) - 1), tzh),
                    messages[Len(messages)], tzh)

\* A detection that reports every message from the sender
DetectAll(fromSenderMessages, toSenderMessages, tzh) ==
  SortByDateAsc(fromSenderMessages, tzh)

\* detectUnrepliedMessagesAdvanced: the messages from the sender, oldest
\* first, that isMessageReplied does not find a reply for.
detectUnrepliedMessagesAdvanced(fromSenderMessages, toSenderMessages, tzh) ==
  SelectSeq(SortByDateAsc(fromSenderMessages, tzh),
            LAMBDA m : ~isMessageReplied(m, SortByDateAsc(toSenderMessages, tzh), tzh))

\* The result handleSearchUnrepliedFromSender builds (lines 1149-1165).
UnrepliedResult(fromSenderResult, toSenderResult, tzh) ==
  LET unrepliedMessages ==
        detectUnrepliedMessagesAdvanced(fromSenderResult.messages,
                                        toSenderResult.messages, tzh)
  IN  [kind |-> "unreplied",
       mailboxesSearched |-> fromSenderResult.mailboxesSearched,
       totalMatches |-> Len(unrepliedMessages),
       messages |-> unrepliedMessages]

\* ------------------------------------------------------- send and reply
\* extractEmailFromAddress on the string fetchMessages stored: the address,
\* or null (here "") when the field is empty.
extractEmailFromAddress(addressField) == addressField

\* extractEmailsFromAddressField on the string fetchMessages stored.
extractEmailsFromAddressField(addressField) ==
  IF addressField = "" THEN <<>> ELSE <<addressField>>

ReplyPrefix == <<"R", "e", ":", " ">>

\* The EmailOptions handleReplyToEmail composes (lines 1506-1561).
ComposeReply(originalMessage, replyToAll) ==
  LET originalFrom == extractEmailFromAddress(originalMessage.from)
      allRecipients ==
        extractEmailsFromAddressField(originalMessage.to) \o
        extractEmailsFromAddressField(originalMessage.cc)
      filteredRecipients ==
        SelectSeq(allRecipients, LAMBDA email : email # Me /\ email # originalFrom)
  IN  EmailOptions(<<originalFrom>>,
                   IF replyToAll THEN filteredRecipients ELSE <<>>,
                   ReplyPrefix \o originalMessage.subject)

\* The payload of a successful send_email / reply_to_email.
SentResult(l) ==
  [kind |-> "sent", messageId |-> l.messageId, sentFolderSaved |-> TRUE,
   mail |-> l.mail]

\* A save whose failure reaches the caller
SaveThrows(l, saved) ==
  IF saved THEN SentResult(l) ELSE ErrorResult("Failed to send email")

\* saveSentMessage has returned, the copy saved or not (its catch only logs
\* the failure): the handler returns the success payload.
saveSentMessage(l, saved) == SentResult(l)

\* ------------------------------------------------------ connection handling
\* A guard that is never observed
MustWaitNever == FALSE

\* if (this.isInitializing): another call holds the guard.
MustWait == isInitializing

\* The synchronous part of ensureIMAPConnection, from its entry to its first
\* await: return when connected; wait while another call initializes;
\* otherwise take the guard, create the client and start connect().
ensureIMAPConnection(c, l, after) ==
  IF imapClient # NoClient /\ isConnected(imapClient)
  THEN /\ pc' = [pc EXCEPT ![c] = after]
       /\ loc' = [loc EXCEPT ![c] = l]
       /\ UNCHANGED <<imapClient, isInitializing, clients, nClients>>
  ELSE IF MustWait
  THEN /\ pc' = [pc EXCEPT ![c] = "ensureWait"]
       /\ loc' = [loc EXCEPT ![c] = l]
       /\ UNCHANGED <<imapClient, isInitializing, clients, nClients>>
  ELSE /\ nClients < MaxClients
       /\ isInitializing' = TRUE
       /\ nClients' = nClients + 1
       /\ imapClient' = nClients + 1
       /\ clients' = [clients EXCEPT ![nClients + 1] =
                         [FreshClient EXCEPT !.imap = TRUE, !.promise = "pending"]]
       /\ loc' = [loc EXCEPT ![c] = [l EXCEPT !.awaiting = nClients + 1]]
       /\ pc' = [pc EXCEPT ![c] = "connecting"]

\* Where a handler resumes once ensureIMAPConnection has returned.
AfterEnsure(c) ==
  IF tool[c] = "connect_all" THEN "ca_imapOk"
  ELSE IF loc[c].sent THEN "saving"
  ELSE IF tool[c] = "reply_to_email" THEN "re_smtp"
  ELSE IF tool[c] = "get_message" THEN "gm_get"
  ELSE IF tool[c] = "delete_message" THEN "dm_check"
  ELSE IF tool[c] = "open_mailbox" THEN "om_open"
  ELSE "validate"

\* What a handler does with an error thrown by ensureIMAPConnection:
\* handleConnectAll catches it; saveSentMessage catches it; elsewhere it
\* reaches the request handler, which returns "Error: <message>".
OnEnsureThrow(c, err) ==
  IF tool[c] = "connect_all"
  THEN /\ pc' = [pc EXCEPT ![c] = "ca_smtp"]
       /\ loc' = [loc EXCEPT ![c].imapLine = "IMAP: Connection failed"]
       /\ UNCHANGED result
  ELSE IF loc[c].sent
  THEN /\ pc' = [pc EXCEPT ![c] = "done"]
       /\ result' = [result EXCEPT ![c] = saveSentMessage(loc[c], FALSE)]
       /\ loc' = [loc EXCEPT ![c].saveError = err]
  ELSE /\ pc' = [pc EXCEPT ![c] = "done"]
       /\ result' = [result EXCEPT ![c] = ErrorResult(err)]
       /\ UNCHANGED loc

\* The 'ready' handler of connect(): connected and authenticated are set,
\* INBOX is opened read-only (a failure is only logged), the promise resolves.
ImapReady(k) ==
  /\ clients[k].promise = "pending"
  /\ ~clients[k].connected
  /\ \E o \in openBox(k, "INBOX", TRUE,
                       [clients EXCEPT ![k].connected = TRUE,
                                       ![k].authenticated = TRUE], faults) :
        /\ clients' = [o.cl EXCEPT ![k].promise = "resolved"]
        /\ faults' = o.fl
  /\ UNCHANGED <<envVars, imapClient, smtpClient, isInitializing, nClients, pc,
                 tool, args, loc, result>>

\* The 'error' handler of connect(): the promise is rejected.
ImapError(k) ==
  /\ clients[k].promise = "pending"
  /\ ~clients[k].connected
  /\ faults > 0
  /\ faults' = faults - 1
  /\ clients' = [clients EXCEPT ![k].promise = "rejected"]
  /\ UNCHANGED <<envVars, imapClient, smtpClient, isInitializing, nClients, pc,
                 tool, args, loc, result>>

\* An 'end' handler that leaves currentBox as it is
OnEndKeepsBox(cl, k) ==
  [cl EXCEPT ![k].connected = FALSE, ![k].authenticated = FALSE,
             ![k].selected = NoBox]

\* The 'end' handler of connect(): the connection has ended.
OnEnd(cl, k) ==
  [cl EXCEPT ![k].connected = FALSE, ![k].authenticated = FALSE,
             ![k].currentBox = NoBox, ![k].selected = NoBox]

ImapEnd(k) ==
  /\ clients[k].connected
  /\ faults > 0
  /\ faults' = faults - 1
  /\ clients' = OnEnd(clients, k)
  /\ UNCHANGED <<envVars, imapClient, smtpClient, isInitializing, nClients, pc,
                 tool, args, loc, result>>

\* A guard that is released only when the connect succeeded
GuardAfterSuccess(promise) == promise # "resolved"

\* finally { this.isInitializing = false; }
GuardAfterConnect(promise) == FALSE

\* ensureIMAPConnection resumes after await this.imapClient.connect(): the
\* finally block releases the guard; a rejection is rethrown.
ConnectSettled(c) ==
  /\ pc[c] = "connecting"
  /\ clients[loc[c].awaiting].promise \in {"resolved", "rejected"}
  /\ isInitializing' = GuardAfterConnect(clients[loc[c].awaiting].promise)
  /\ IF clients[loc[c].awaiting].promise = "resolved"
     THEN /\ pc' = [pc EXCEPT ![c] = AfterEnsure(c)]
          /\ UNCHANGED <<loc, result>>
     ELSE OnEnsureThrow(c, "IMAP connection failed")
  /\ UNCHANGED <<envVars, faults, imapClient, smtpClient, clients, nClients,
                 tool, args>>

\* The polling loop of ensureIMAPConnection: it returns once the guard is free.
EnsureWaitPoll(c) ==
  /\ pc[c] = "ensureWait"
  /\ ~isInitializing
  /\ pc' = [pc EXCEPT ![c] = AfterEnsure(c)]
  /\ UNCHANGED <<envVars, faults, imapClient, smtpClient, isInitializing,
                 clients, nClients, tool, args, loc, result>>

\* ------------------------------------------------------------ tool handlers
SearchArgs(sender, startDate, endDate) ==
  [sender |-> sender, startDate |-> startDate, endDate |-> endDate]
NoArgs == SearchArgs(FALSE, EmptyStr, EmptyStr)

Finish(c, r) ==
  /\ pc' = [pc EXCEPT ![c] = "done"]
  /\ result' = [result EXCEPT ![c] = r]

\* A search_by_sender request arrives: handleSearchBySender runs up to the
\* first await inside ensureRequiredConnections(true, false).
InvokeSearch(c, senders, starts, ends) ==
  /\ pc[c] = "idle"
  /\ \E sender \in senders, sd \in starts, ed \in ends :
        args' = [args EXCEPT ![c] = SearchArgs(sender, sd, ed)]
  /\ tool' = [tool EXCEPT ![c] = "search_by_sender"]
  /\ ensureIMAPConnection(c, LocInit, "validate")
  /\ UNCHANGED <<envVars, faults, smtpClient, result>>

\* The criteria of the federated search tools (criteria of the handler).
CriteriaOf(t) ==
  IF t = "search_by_subject" THEN "SUBJECT"
  ELSE IF t = "search_by_recipient" THEN "TO"
  ELSE IF t = "search_unread_from_sender" THEN "UNSEEN FROM"
  ELSE "FROM"

\* A search_by_subject, search_by_recipient or search_unread_from_sender
\* request arrives: the handler runs up to the first await inside
\* ensureRequiredConnections(true, false).  The field sender of the
\* arguments stands for the required argument of the tool.
InvokeFederated(c, tools, starts, ends) ==
  /\ pc[c] = "idle"
  /\ \E sender \in BOOLEAN, sd \in starts, ed \in ends :
        args' = [args EXCEPT ![c] = SearchArgs(sender, sd, ed)]
  /\ \E t \in tools :
        /\ tool' = [tool EXCEPT ![c] = t]
        /\ ensureIMAPConnection(c, [LocInit EXCEPT !.criteria = CriteriaOf(t)],
                                "validate")
  /\ UNCHANGED <<envVars, faults, smtpClient, result>>

\* A search_unreplied_from_sender request arrives:
\* handleSearchUnrepliedFromSender runs up to the first await inside
\* ensureRequiredConnections(true, false).
InvokeUnreplied(c, senders, starts, ends) ==
  /\ pc[c] = "idle"
  /\ \E sender \in senders, sd \in starts, ed \in ends :
        args' = [args EXCEPT ![c] = SearchArgs(sender, sd, ed)]
  /\ tool' = [tool EXCEPT ![c] = "search_unreplied_from_sender"]
  /\ ensureIMAPConnection(c, LocInit, "validate")
  /\ UNCHANGED <<envVars, faults, smtpClient, result>>

\* A search handler after the connection step: the sender argument is
\* validated, then searchInMultipleMailboxes starts its discovery loop.
Validate(c) ==
  /\ pc[c] = "validate"
  /\ IF ~args[c].sender
     THEN Finish(c, ErrorResult("sender parameter is required"))
     ELSE /\ pc' = [pc EXCEPT ![c] = "fs_probe"]
          /\ UNCHANGED result
  /\ UNCHANGED <<envVars, faults, imapClient, smtpClient, isInitializing,
                 clients, nClients, tool, args, loc>>

\* The next mailbox of the search loop; or, the loop being over,
\* searchInMultipleMailboxes returns its result: a search handler returns it
\* to the client; handleSearchUnrepliedFromSender goes on with its second
\* search (['TO', sender]) and, after that one, returns the unreplied subset.
NextMailbox(c, l) ==
  IF ~SearchLoopDone(l)
  THEN /\ loc' = [loc EXCEPT ![c] = l]
       /\ pc' = [pc EXCEPT ![c] = "fs_open"]
       /\ UNCHANGED result
  ELSE IF tool[c] # "search_unreplied_from_sender"
  THEN /\ loc' = [loc EXCEPT ![c] = l]
       /\ Finish(c, HandlerResult(tool[c], SearchResult(l, tz)))
  ELSE IF l.criteria = "FROM"
  THEN /\ loc' = [loc EXCEPT ![c] =
                    [LocInit EXCEPT !.criteria = "TO",
                                    !.fromResult = SearchResult(l, tz),
                                    !.awaiting = l.awaiting]]
       /\ pc' = [pc EXCEPT ![c] = "fs_probe"]
       /\ UNCHANGED result
  ELSE /\ loc' = [loc EXCEPT ![c] = l]
       /\ Finish(c, UnrepliedResult(l.fromResult, SearchResult(l, tz), tz))

\* Discovery loop (lines 187-197): one openBox(sentName, true).
ProbeSent(c) ==
  /\ pc[c] = "fs_probe"
  /\ LET sentName == COMMON_SENT_MAILBOX_NAMES[loc[c].sentIdx]
     IN  \E o \in openBox(imapClient, sentName, TRUE, clients, faults) :
           /\ clients' = o.cl
           /\ faults' = o.fl
           /\ loc' = [loc EXCEPT ![c] = ProbeStep(loc[c], sentName, o.ok)]
           /\ pc' = [pc EXCEPT ![c] =
                       IF ProbeDone(ProbeStep(loc[c], sentName, o.ok))
                       THEN "fs_open" ELSE "fs_probe"]
  /\ UNCHANGED <<envVars, imapClient, smtpClient, isInitializing, nClients,
                 tool, args, result>>

\* Search loop (lines 208-259), first await: openBox(mailboxName, true).
FsOpen(c) ==
  /\ pc[c] = "fs_open"
  /\ LET mailboxName == loc[c].mailboxesToSearch[loc[c].mbIdx]
     IN  \E o \in openBox(imapClient, mailboxName, TRUE, clients, faults) :
           /\ clients' = o.cl
           /\ faults' = o.fl
           /\ IF o.ok
              THEN /\ pc' = [pc EXCEPT ![c] = "fs_search"]
                   /\ UNCHANGED <<loc, result>>
              ELSE NextMailbox(c, OnMailboxError(loc[c], mailboxName, o.err))
  /\ UNCHANGED <<envVars, imapClient, smtpClient, isInitializing, nClients,
                 tool, args>>

\* Search loop, second await: search(criteria).  With no match the mailbox
\* is done; otherwise the messages are fetched.
FsSearch(c) ==
  /\ pc[c] = "fs_search"
  /\ LET mailboxName == loc[c].mailboxesToSearch[loc[c].mbIdx]
     IN  \E o \in search(imapClient, loc[c].criteria, clients, faults) :
           /\ clients' = o.cl
           /\ faults' = o.fl
           /\ IF ~o.ok
              THEN NextMailbox(c, OnMailboxError(loc[c], mailboxName, o.err))
              ELSE IF Len(o.val) > 0
              THEN /\ pc' = [pc EXCEPT ![c] = "fs_fetch"]
                   /\ loc' = [loc EXCEPT ![c].uids = o.val]
                   /\ UNCHANGED result
              ELSE NextMailbox(c, OnMailboxDone(loc[c], mailboxName, <<>>,
                                  args[c].startDate, args[c].endDate, tz))
  /\ UNCHANGED <<envVars, imapClient, smtpClient, isInitializing, nClients,
                 tool, args>>

\* Search loop, third await: fetchMessages(uids); then tag, filter, push.
FsFetch(c) ==
  /\ pc[c] = "fs_fetch"
  /\ LET mailboxName == loc[c].mailboxesToSearch[loc[c].mbIdx]
     IN  \E o \in fetchMessages(imapClient, loc[c].uids, now, clients, faults) :
           /\ clients' = o.cl
           /\ faults' = o.fl
           /\ IF ~o.ok
              THEN NextMailbox(c, OnMailboxError(loc[c], mailboxName, o.err))
              ELSE NextMailbox(c, OnMailboxDone(loc[c], mailboxName, o.val,
                                  args[c].startDate, args[c].endDate, tz))
  /\ UNCHANGED <<envVars, imapClient, smtpClient, isInitializing, nClients,
                 tool, args>>

\* The response has been handed to the transport; the slot is free again.
Return(c) ==
  /\ pc[c] = "done"
  /\ pc' = [pc EXCEPT ![c] = "idle"]
  /\ result' = [result EXCEPT ![c] = NoResult]
  /\ loc' = [loc EXCEPT ![c] = LocInit]
  /\ tool' = [tool EXCEPT ![c] = ""]
  /\ args' = [args EXCEPT ![c] = NoArgs]
  /\ UNCHANGED <<envVars, faults, imapClient, smtpClient, isInitializing,
                 clients, nClients>>

\* ------------------------------------------------ send_email, reply_to_email
SendArgs(hasContent) ==
  [hasContent |-> hasContent, originalUid |-> 0, replyToAll |-> FALSE]
ReplyArgs(originalUid, replyToAll) ==
  [hasContent |-> TRUE, originalUid |-> originalUid, replyToAll |-> replyToAll]
NotANumber == -1

\* ensureSMTPConnection up to its first await: an existing client is used as
\* it is; otherwise a client is created and connect() awaited.
ensureSMTPConnection(c, after) ==
  IF smtpClient # "null"
  THEN /\ pc' = [pc EXCEPT ![c] = after]
       /\ UNCHANGED smtpClient
  ELSE /\ smtpClient' = "verifying"
       /\ pc' = [pc EXCEPT ![c] = "smtpAwait"]

\* A send_email request arrives: ensureRequiredConnections(false, true).
InvokeSend(c, contents) ==
  /\ pc[c] = "idle"
  /\ \E hasContent \in contents : args' = [args EXCEPT ![c] = SendArgs(hasContent)]
  /\ tool' = [tool EXCEPT ![c] = "send_email"]
  /\ ensureSMTPConnection(c, "se_check")
  /\ UNCHANGED <<envVars, faults, imapClient, isInitializing, clients, nClients,
                 loc, result>>

\* A reply_to_email request arrives: ensureRequiredConnections(true, true),
\* the IMAP half.
InvokeReply(c, uids) ==
  /\ pc[c] = "idle"
  /\ \E uid \in uids, all \in BOOLEAN :
        args' = [args EXCEPT ![c] = ReplyArgs(uid, all)]
  /\ tool' = [tool EXCEPT ![c] = "reply_to_email"]
  /\ ensureIMAPConnection(c, LocInit, "re_smtp")
  /\ UNCHANGED <<envVars, faults, smtpClient, result>>

\* ensureRequiredConnections(true, true), the SMTP half.
ReplySmtp(c) ==
  /\ pc[c] = "re_smtp"
  /\ ensureSMTPConnection(c, "re_check")
  /\ UNCHANGED <<envVars, faults, imapClient, isInitializing, clients, nClients,
                 tool, args, loc, result>>

\* SMTPClient.connect() settles: verify() succeeded, or threw and the error
\* reaches the request handler; smtpClient stays assigned either way.
SmtpConnectSettled(c) ==
  /\ pc[c] = "smtpAwait"
  /\ \E ok \in (IF faults > 0 THEN {TRUE, FALSE} ELSE {TRUE}) :
        /\ faults' = IF ok THEN faults ELSE faults - 1
        /\ smtpClient' = IF ok THEN "ok" ELSE "failed"
        /\ IF ok
           THEN /\ pc' = [pc EXCEPT ![c] = IF tool[c] = "send_email"
                                           THEN "se_check" ELSE "re_check"]
                /\ UNCHANGED result
           ELSE Finish(c, ErrorResult("SMTP connection failed"))
  /\ UNCHANGED <<envVars, imapClient, isInitializing, clients, nClients, tool,
                 args, loc>>

\* this.smtpClient.sendMail(emailOptions) up to its await: it throws at once
\* when the client has no transporter.
sendMail(c, l, mail) ==
  IF smtpClient \in {"null", "closed"}
  THEN /\ Finish(c, ErrorResult("Failed to send email: SMTP client not connected"))
       /\ loc' = [loc EXCEPT ![c] = l]
  ELSE /\ pc' = [pc EXCEPT ![c] = "sending"]
       /\ loc' = [loc EXCEPT ![c] = [l EXCEPT !.mail = mail]]
       /\ UNCHANGED result

\* handleSendEmail after the connection step: the content check, then sendMail.
SendCheck(c) ==
  /\ pc[c] = "se_check"
  /\ IF ~args[c].hasContent
     THEN /\ Finish(c, ErrorResult("Either text or html content is required"))
          /\ UNCHANGED loc
     ELSE sendMail(c, loc[c], EmailOptions(<<Bob>>, <<>>, SubjHi))
  /\ UNCHANGED <<envVars, faults, imapClient, smtpClient, isInitializing,
                 clients, nClients, tool, args>>

\* handleReplyToEmail after the connection step: the originalUid check, then
\* ensureMailboxOpen (openBox('INBOX', true) when no mailbox is open).
ReplyCheck(c) ==
  /\ pc[c] = "re_check"
  /\ IF args[c].originalUid = NotANumber
     THEN /\ Finish(c, ErrorResult("originalUid must be a number"))
          /\ UNCHANGED <<clients, faults, loc>>
     ELSE IF imapClient # NoClient /\ clients[imapClient].currentBox # NoBox
     THEN /\ pc' = [pc EXCEPT ![c] = "re_get"]
          /\ UNCHANGED <<clients, faults, loc, result>>
     ELSE \E o \in openBox(imapClient, "INBOX", TRUE, clients, faults) :
            /\ clients' = o.cl
            /\ faults' = o.fl
            /\ IF o.ok
               THEN /\ pc' = [pc EXCEPT ![c] = "re_get"]
                    /\ UNCHANGED result
               ELSE Finish(c, ErrorResult("Failed to reply to email"))
            /\ UNCHANGED loc
  /\ UNCHANGED <<envVars, imapClient, smtpClient, isInitializing, nClients,
                 tool, args>>

\* A fetch by uid that looks the message up in INBOX
getMessageInInbox(k, uid, nowv, cl, fl) ==
  LET got == FilterSeq(srvInbox, {m \in Range(srvInbox) : m.uid = uid})
  IN  IF k = NoClient \/ got = <<>>
      THEN {Outcome(FALSE, "Message with UID not found", <<>>, cl, fl)}
      ELSE {Outcome(TRUE, "", ParseAll(got, nowv), cl, fl)}

\* IMAPClient.getMessage(uid): fetchMessages([uid]); it throws when no
\* message came back.
getMessage(k, uid, nowv, cl, fl) ==
  { IF o.ok /\ o.val = <<>>
    THEN Outcome(FALSE, "Message with UID not found", <<>>, o.cl, o.fl)
    ELSE o : o \in fetchMessages(k, <<uid>>, nowv, cl, fl) }

\* An entry of the history of a lookup: the mailbox, and whether it was
\* looked into as the mailbox that was open when the lookup began.
Looked(name, asCurrent) == [name |-> name, asCurrent |-> asCurrent]

\* A lookup that gives up after the first mailbox it tried
FindNextNowhere(c, l) ==
  /\ Finish(c, ErrorResult("Failed to reply to email: Original message not found in any mailbox"))
  /\ loc' = [loc EXCEPT ![c] = l]

\* findMessageInMultipleMailboxes gives up the mailbox it tried: the next
\* name of COMMON_MAILBOX_NAMES is opened, or, after the last one, null is
\* returned and the handler throws.  tried is the history of the mailboxes
\* the lookup has gone through.
FindNext(c, l) ==
  IF l.findIdx >= 1 + Len(COMMON_SENT_MAILBOX_NAMES)
  THEN /\ Finish(c, ErrorResult("Failed to reply to email: Original message not found in any mailbox"))
       /\ loc' = [loc EXCEPT ![c] = l]
  ELSE /\ pc' = [pc EXCEPT ![c] = "re_open"]
       /\ loc' = [loc EXCEPT ![c] = [l EXCEPT !.findIdx = @ + 1]]
       /\ UNCHANGED result

\* findMessageInMultipleMailboxes: getMessage(uid) in the mailbox that is
\* open.  When it returns the message the reply is composed and handed to
\* sendMail; when it throws, the search goes on.
ReplyGet(c) ==
  /\ pc[c] = "re_get"
  /\ IF loc[c].findIdx = 0 /\
        (imapClient = NoClient \/ clients[imapClient].currentBox = NoBox)
     THEN /\ FindNext(c, loc[c])
          /\ UNCHANGED <<clients, faults>>
     ELSE \E o \in getMessage(imapClient, args[c].originalUid, now, clients, faults) :
            LET l == [loc[c] EXCEPT
                        !.tried = Append(@,
                          IF loc[c].findIdx = 0
                          THEN Looked(clients[imapClient].currentBox, TRUE)
                          ELSE IF loc[c].findIdx = 1
                          THEN Looked("INBOX", FALSE)
                          ELSE Looked(COMMON_SENT_MAILBOX_NAMES[loc[c].findIdx - 1],
                                      FALSE))]
            IN  /\ clients' = o.cl
                /\ faults' = o.fl
                /\ IF ~o.ok
                   THEN FindNext(c, l)
                   ELSE IF extractEmailFromAddress(o.val[1].from) = ""
                   THEN /\ Finish(c, ErrorResult("Failed to reply to email: Could not extract sender email"))
                        /\ loc' = [loc EXCEPT ![c] = l]
                   ELSE sendMail(c, l, ComposeReply(o.val[1], args[c].replyToAll))
  /\ UNCHANGED <<envVars, imapClient, smtpClient, isInitializing, nClients,
                 tool, args>>

\* findMessageInMultipleMailboxes: openBox(mailboxName, true) for the next
\* name of COMMON_MAILBOX_NAMES (INBOX, then the sent-folder names).
ReplyOpen(c) ==
  /\ pc[c] = "re_open"
  /\ LET mailboxName == IF loc[c].findIdx = 1 THEN "INBOX"
                        ELSE COMMON_SENT_MAILBOX_NAMES[loc[c].findIdx - 1]
     IN  \E o \in openBox(imapClient, mailboxName, TRUE, clients, faults) :
           /\ clients' = o.cl
           /\ faults' = o.fl
           /\ IF o.ok
              THEN /\ pc' = [pc EXCEPT ![c] = "re_get"]
                   /\ UNCHANGED <<loc, result>>
              ELSE FindNext(c, [loc[c] EXCEPT
                                  !.tried = Append(@, Looked(mailboxName, FALSE))])
  /\ UNCHANGED <<envVars, imapClient, smtpClient, isInitializing, nClients,
                 tool, args>>

MessageIds == {"<id-1>", "<id-2>"}

\* A handler that goes on to save the copy however the send ended
SaveRegardless(c) ==
  /\ pc[c] = "sending"
  /\ pc' = [pc EXCEPT ![c] = "saving"]
  /\ UNCHANGED <<envVars, faults, imapClient, smtpClient, isInitializing,
                 clients, nClients, tool, args, loc, result>>

\* transporter.sendMail settles.  When it threw, the handler's catch turns
\* the error into the tool's error.  When it returned, saveSentMessage starts
\* with ensureRequiredConnections(true, false).  A transport whose verify()
\* failed may or may not deliver.
SendSettled(c) ==
  /\ pc[c] = "sending"
  /\ \/ /\ \E id \in MessageIds :
             ensureIMAPConnection(c, [loc[c] EXCEPT !.sent = TRUE,
                                                    !.messageId = id], "saving")
        /\ UNCHANGED <<faults, result>>
     \/ /\ faults > 0 \/ smtpClient = "failed"
        /\ faults' = IF faults > 0 THEN faults - 1 ELSE faults
        /\ Finish(c, ErrorResult(IF tool[c] = "send_email"
                                 THEN "Failed to send email"
                                 ELSE "Failed to reply to email"))
        /\ UNCHANGED <<imapClient, isInitializing, clients, nClients, loc>>
  /\ UNCHANGED <<envVars, smtpClient, tool, args>>

\* saveSentMessage: imapClient.saveMessageToFolder(rawMessage) settles.  The
\* copy is saved only over a connected client; the server may refuse it.
Saving(c) ==
  /\ pc[c] = "saving"
  /\ \E saved \in {FALSE} \cup
                  {s \in {TRUE} : imapClient # NoClient /\ isConnected(imapClient)} :
        /\ Finish(c, saveSentMessage(loc[c], saved))
        /\ loc' = [loc EXCEPT ![c].saveError =
                     IF saved THEN "" ELSE "Failed to save message"]
  /\ UNCHANGED <<envVars, faults, imapClient, smtpClient, isInitializing,
                 clients, nClients, tool, args>>

\* ---------------------------------------------------------- get_message
UidArgs(uid) == [uid |-> uid]
MessageResult(message) == [kind |-> "message", message |-> message]

\* A get_message request arrives: ensureRequiredConnections(true, false).
InvokeGetMessage(c, uids) ==
  /\ pc[c] = "idle"
  /\ \E uid \in uids : args' = [args EXCEPT ![c] = UidArgs(uid)]
  /\ tool' = [tool EXCEPT ![c] = "get_message"]
  /\ ensureIMAPConnection(c, LocInit, "gm_get")
  /\ UNCHANGED <<envVars, faults, smtpClient, result>>

\* handleGetMessage after the connection step: the uid check, then
\* getMessage(uid) on the mailbox that is open.
HandleGetMessage(c) ==
  /\ pc[c] = "gm_get"
  /\ IF args[c].uid = NotANumber
     THEN /\ Finish(c, ErrorResult("uid must be a number"))
          /\ UNCHANGED <<clients, faults>>
     ELSE \E o \in getMessage(imapClient, args[c].uid, now, clients, faults) :
            /\ clients' = o.cl
            /\ faults' = o.fl
            /\ Finish(c, IF o.ok THEN MessageResult(o.val[1])
                         ELSE ErrorResult("Failed to get message"))
  /\ UNCHANGED <<envVars, imapClient, smtpClient, isInitializing, nClients,
                 tool, args, loc>>

\* ------------------------------------------------------- delete_message
DeletedResult(uid) == [kind |-> "deleted", uid |-> uid]

\* A delete_message request arrives: ensureRequiredConnections(true, false).
InvokeDelete(c, uids) ==
  /\ pc[c] = "idle"
  /\ \E uid \in uids : args' = [args EXCEPT ![c] = UidArgs(uid)]
  /\ tool' = [tool EXCEPT ![c] = "delete_message"]
  /\ ensureIMAPConnection(c, LocInit, "dm_check")
  /\ UNCHANGED <<envVars, faults, smtpClient, result>>

\* handleDeleteMessage after the connection step and deleteMessage up to
\* addFlags: the uid check, the guard on this.imap, and openBox('INBOX',
\* false) when no mailbox is open.
DeleteCheck(c) ==
  /\ pc[c] = "dm_check"
  /\ IF args[c].uid = NotANumber
     THEN /\ Finish(c, ErrorResult("uid must be a number"))
          /\ UNCHANGED <<clients, faults>>
     ELSE IF imapClient = NoClient \/ ~clients[imapClient].imap
     THEN /\ Finish(c, ErrorResult("Failed to delete message"))
          /\ UNCHANGED <<clients, faults>>
     ELSE IF clients[imapClient].currentBox # NoBox
     THEN /\ pc' = [pc EXCEPT ![c] = "dm_flags"]
          /\ UNCHANGED <<clients, faults, result>>
     ELSE \E o \in openBox(imapClient, "INBOX", FALSE, clients, faults) :
            /\ clients' = o.cl
            /\ faults' = o.fl
            /\ IF o.ok
               THEN /\ pc' = [pc EXCEPT ![c] = "dm_flags"]
                    /\ UNCHANGED result
               ELSE Finish(c, ErrorResult("Failed to delete message"))
  /\ UNCHANGED <<envVars, imapClient, smtpClient, isInitializing, nClients,
                 tool, args, loc>>

\* The messages of a mailbox without the one that has the uid.
Expunged(msgs, uid) == SelectSeq(msgs, LAMBDA m : m.uid # uid)

\* addFlags(uid, ['\\Deleted']) and expunge() settle.  The server carries
\* them out on the selected mailbox when it is selected for writing, and
\* refuses them otherwise.
DeleteSettled(c) ==
  /\ pc[c] = "dm_flags"
  /\ LET k == imapClient
         writable == /\ clients[k].connected
                     /\ clients[k].selected # NoBox
                     /\ ~clients[k].readOnly
     IN  IF writable
         THEN /\ srvInbox' = IF clients[k].selected = "INBOX"
                             THEN Expunged(srvInbox, args[c].uid) ELSE srvInbox
              /\ srvSent' = IF clients[k].selected = "INBOX"
                            THEN srvSent ELSE Expunged(srvSent, args[c].uid)
              /\ Finish(c, DeletedResult(args[c].uid))
         ELSE /\ Finish(c, ErrorResult("Failed to delete message"))
              /\ UNCHANGED <<srvInbox, srvSent>>
  /\ UNCHANGED <<tz, now, srvExists, faults, imapClient, smtpClient,
                 isInitializing, clients, nClients, tool, args, loc>>

\* ---------------------------------------------------------- open_mailbox
OpenArgs(mailboxName, readOnly, openSent) ==
  [mailboxName |-> mailboxName, readOnly |-> readOnly, openSent |-> openSent]

\* The JSON handleOpenMailbox returns: results.currentlyOpen, and whether a
\* sent folder's info was added.
OpenedResult(l) ==
  [kind |-> "opened", currentlyOpen |-> l.currentlyOpen,
   sentFound |-> l.sentFound]

\* An open_mailbox request arrives: ensureRequiredConnections(true, false).
InvokeOpenMailbox(c, names, modes, sents) ==
  /\ pc[c] = "idle"
  /\ \E n \in names, ro \in modes, os \in sents :
        args' = [args EXCEPT ![c] = OpenArgs(n, ro, os)]
  /\ tool' = [tool EXCEPT ![c] = "open_mailbox"]
  /\ ensureIMAPConnection(c, LocInit, "om_open")
  /\ UNCHANGED <<envVars, faults, smtpClient, result>>

\* openBox(mailboxName, readOnly) settles.  A failure reaches the outer
\* catch; on success results.currentlyOpen is set, and the sent folders are
\* probed when openSent is on and the mailbox is none of INBOX.Sent, Sent,
\* SENT.
OpenMain(c) ==
  /\ pc[c] = "om_open"
  /\ \E o \in openBox(imapClient, args[c].mailboxName, args[c].readOnly,
                      clients, faults) :
        /\ clients' = o.cl
        /\ faults' = o.fl
        /\ IF ~o.ok
           THEN /\ Finish(c, ErrorResult("Failed to open mailbox"))
                /\ UNCHANGED loc
           ELSE LET l == [loc[c] EXCEPT !.currentlyOpen = args[c].mailboxName,
                                        !.sentIdx = 1]
                IN  /\ loc' = [loc EXCEPT ![c] = l]
                    /\ IF /\ args[c].openSent
                          /\ args[c].mailboxName \notin {"INBOX.Sent", "Sent", "SENT"}
                       THEN /\ pc' = [pc EXCEPT ![c] = "om_sent"]
                            /\ UNCHANGED result
                       ELSE Finish(c, OpenedResult(l))
  /\ UNCHANGED <<envVars, imapClient, smtpClient, isInitializing, nClients,
                 tool, args>>

\* The catch inside the loop over sentBoxNames: the next name is tried, and
\* after the last one the handler returns its results.
OpenNextSent(c, l) ==
  /\ loc' = [loc EXCEPT ![c] = [l EXCEPT !.sentIdx = @ + 1]]
  /\ IF l.sentIdx < Len(COMMON_SENT_MAILBOX_NAMES)
     THEN /\ pc' = [pc EXCEPT ![c] = "om_sent"]
          /\ UNCHANGED result
     ELSE Finish(c, OpenedResult(l))

\* openBox(sentName, true) settles: on success sentFound is set and the
\* requested mailbox is opened again.
OpenSentProbe(c) ==
  /\ pc[c] = "om_sent"
  /\ \E o \in openBox(imapClient, COMMON_SENT_MAILBOX_NAMES[loc[c].sentIdx],
                      TRUE, clients, faults) :
        /\ clients' = o.cl
        /\ faults' = o.fl
        /\ IF o.ok
           THEN /\ loc' = [loc EXCEPT ![c].sentFound = TRUE]
                /\ pc' = [pc EXCEPT ![c] = "om_reopen"]
                /\ UNCHANGED result
           ELSE OpenNextSent(c, loc[c])
  /\ UNCHANGED <<envVars, imapClient, smtpClient, isInitializing, nClients,
                 tool, args>>

\* The second openBox(mailboxName, readOnly) settles, inside the same try as
\* the probe: on success results.currentlyOpen is set again and the loop is
\* left; a failure is caught as if the probe had failed, and the next sent
\* name is tried.
OpenReopen(c) ==
  /\ pc[c] = "om_reopen"
  /\ \E o \in openBox(imapClient, args[c].mailboxName, args[c].readOnly,
                      clients, faults) :
        /\ clients' = o.cl
        /\ faults' = o.fl
        /\ IF o.ok
           THEN /\ loc' = [loc EXCEPT ![c].currentlyOpen = args[c].mailboxName]
                /\ Finish(c, OpenedResult(loc[c]))
           ELSE OpenNextSent(c, loc[c])
  /\ UNCHANGED <<envVars, imapClient, smtpClient, isInitializing, nClients,
                 tool, args>>

\* ------------------------------------------------- get_connection_status
StatusResult(imapConnected, currentBox, smtpConnected) ==
  [kind |-> "status", imapConnected |-> imapConnected,
   currentBox |-> currentBox, smtpConnected |-> smtpConnected]

\* handleGetConnectionStatus: it awaits nothing.  IMAP is reported from the
\* client's isConnected() and getCurrentBox(); SMTP is reported as connected
\* whenever an SMTP client object exists.
GetConnectionStatus(c) ==
  /\ pc[c] = "idle"
  /\ tool' = [tool EXCEPT ![c] = "get_connection_status"]
  /\ Finish(c, StatusResult(imapClient # NoClient /\ isConnected(imapClient),
                            IF imapClient # NoClient
                            THEN clients[imapClient].currentBox ELSE NoBox,
                            smtpClient # "null"))
  /\ UNCHANGED <<envVars, faults, imapClient, smtpClient, isInitializing,
                 clients, nClients, args, loc>>

\* ------------------------------------------------ connect_all, disconnect_all
TextResult(imapLine, smtpLine) ==
  [kind |-> "text", imap |-> imapLine, smtp |-> smtpLine]

\* The SMTP half of handleConnectAll, up to its first await: an existing
\* client is reported as already connected; otherwise ensureSMTPConnection
\* creates the client and awaits connect().
ConnectAllSmtp(c, l) ==
  IF smtpClient # "null"
  THEN /\ Finish(c, TextResult(l.imapLine, "SMTP: Already connected"))
       /\ loc' = [loc EXCEPT ![c] = l]
       /\ UNCHANGED smtpClient
  ELSE /\ smtpClient' = "verifying"
       /\ pc' = [pc EXCEPT ![c] = "ca_smtpAwait"]
       /\ loc' = [loc EXCEPT ![c] = l]
       /\ UNCHANGED result

\* A connect_all request arrives: handleConnectAll runs up to its first await.
\* getCurrentUsername() of the clients and isConnected() of SMTPClient are not
\* among the source files: a connected client is taken to carry the
\* configured user, and an SMTP client that exists is taken as connected.
InvokeConnectAll(c) ==
  /\ pc[c] = "idle"
  /\ tool' = [tool EXCEPT ![c] = "connect_all"]
  /\ IF imapClient # NoClient /\ isConnected(imapClient)
     THEN /\ ConnectAllSmtp(c, [LocInit EXCEPT !.imapLine = "IMAP: Already connected"])
          /\ UNCHANGED <<imapClient, isInitializing, clients, nClients>>
     ELSE /\ ensureIMAPConnection(c, LocInit, "ca_imapOk")
          /\ UNCHANGED <<smtpClient, result>>
  /\ UNCHANGED <<envVars, faults, args>>

\* handleConnectAll after ensureIMAPConnection returned or threw.
ConnectAllImapDone(c) ==
  /\ pc[c] \in {"ca_imapOk", "ca_smtp"}
  /\ ConnectAllSmtp(c, IF pc[c] = "ca_imapOk"
                       THEN [loc[c] EXCEPT !.imapLine = "IMAP: Connected successfully"]
                       ELSE loc[c])
  /\ UNCHANGED <<envVars, faults, imapClient, isInitializing, clients, nClients,
                 tool, args>>

\* SMTPClient.connect(): transporter.verify() settles.  A failure is caught
\* by handleConnectAll; smtpClient stays assigned either way.
ConnectAllSmtpDone(c) ==
  /\ pc[c] = "ca_smtpAwait"
  /\ \E ok \in (IF faults > 0 THEN {TRUE, FALSE} ELSE {TRUE}) :
        /\ faults' = IF ok THEN faults ELSE faults - 1
        /\ smtpClient' = IF ok THEN "ok" ELSE "failed"
        /\ Finish(c, TextResult(loc[c].imapLine,
                                IF ok THEN "SMTP: Connected successfully"
                                ELSE "SMTP: Connection failed"))
  /\ UNCHANGED <<envVars, imapClient, isInitializing, clients, nClients, tool,
                 args, loc>>

\* The SMTP half of handleDisconnectAll, up to its first await: disconnect()
\* closes the transporter at once; smtpClient is set to null after the await.
DisconnectAllSmtp(c, l) ==
  IF smtpClient # "null"
  THEN /\ smtpClient' = "closed"
       /\ pc' = [pc EXCEPT ![c] = "da_smtp"]
       /\ loc' = [loc EXCEPT ![c] = l]
       /\ UNCHANGED result
  ELSE /\ Finish(c, TextResult(l.imapLine, "SMTP: Not connected"))
       /\ loc' = [loc EXCEPT ![c] = l]
       /\ UNCHANGED smtpClient

\* A disconnect_all request arrives: with an IMAP client, disconnect() is
\* called on it and awaited.
InvokeDisconnectAll(c) ==
  /\ pc[c] = "idle"
  /\ tool' = [tool EXCEPT ![c] = "disconnect_all"]
  /\ IF imapClient # NoClient
     THEN /\ pc' = [pc EXCEPT ![c] = "da_imap"]
          /\ loc' = [loc EXCEPT ![c] = [LocInit EXCEPT !.awaiting = imapClient]]
          /\ UNCHANGED <<result, smtpClient>>
     ELSE DisconnectAllSmtp(c, [LocInit EXCEPT !.imapLine = "IMAP: Not connected"])
  /\ UNCHANGED <<envVars, faults, imapClient, isInitializing, clients, nClients,
                 args>>

\* IMAPClient.disconnect() settles: when the client was connected the
\* connection has ended; then this.imapClient = null.
DisconnectAllImapDone(c) ==
  /\ pc[c] = "da_imap"
  /\ clients' = IF clients[loc[c].awaiting].imap /\ clients[loc[c].awaiting].connected
                THEN OnEnd(clients, loc[c].awaiting)
                ELSE clients
  /\ imapClient' = NoClient
  /\ DisconnectAllSmtp(c, [loc[c] EXCEPT !.imapLine = "IMAP: Disconnected successfully"])
  /\ UNCHANGED <<envVars, faults, isInitializing, nClients, tool, args>>

\* SMTPClient.disconnect() settles; then this.smtpClient = null.
DisconnectAllSmtpDone(c) ==
  /\ pc[c] = "da_smtp"
  /\ smtpClient' = "null"
  /\ Finish(c, TextResult(loc[c].imapLine, "SMTP: Disconnected successfully"))
  /\ UNCHANGED <<envVars, faults, imapClient, isInitializing, clients, nClients,
                 tool, args, loc>>

\* ------------------------------------------------------------ specifications
\* The instant whose Shanghai wall clock reads day d, second s of the day.
WallInstant(d, s) == d * DayMs + s * SecMs - ShanghaiOffsetMs

\* Mailbox contents: uids 1..n, attributes drawn from attrs.
Boxes(maxLen, attrs) ==
  UNION { { [i \in 1..n |-> SrvMsg(i, f[i].hasDate, f[i].date)] : f \in [1..n -> attrs] }
          : n \in 0..maxLen }

Attr(h, t) == [hasDate |-> h, date |-> t]

Noon == 12 * 60 * 60

\* The everyday mailboxes: message i is dated noon (Shanghai) of day 2, 3, 1,
\* 2, ... in INBOX, and one day later in the sent folder.
InboxDate(i) == WallInstant(1 + ((i + 1) % 3), Noon)
SentDate(i)  == WallInstant(1 + ((i + 2) % 3), Noon)
InboxOf(n) == [i \in 1..n |-> SrvMsg(i, TRUE, InboxDate(i))]
SentOf(n)  == [i \in 1..n |-> SrvMsg(i, TRUE, SentDate(i))]
LightDates == {EmptyStr, Ymd(2)}

\* Sent-folder layouts of the server.
ExistLayouts == {{}, {"INBOX.Sent"}, {"Sent", "Sent_zh"}, {"Sent Messages"}}

InitProgram ==
  /\ imapClient = NoClient
  /\ smtpClient = "null"
  /\ isInitializing = FALSE
  /\ clients = [k \in ClientIds |-> FreshClient]
  /\ nClients = 0
  /\ pc = [c \in Calls |-> "idle"]
  /\ tool = [c \in Calls |-> ""]
  /\ args = [c \in Calls |-> NoArgs]
  /\ loc = [c \in Calls |-> LocInit]
  /\ result = [c \in Calls |-> NoResult]

Init ==
  /\ tz \in TZOffsets
  /\ now = WallInstant(5, 0)
  /\ srvInbox \in {InboxOf(n) : n \in 0..MaxInbox}
  /\ srvSent \in {SentOf(n) : n \in 0..MaxSent}
  /\ srvExists \in ExistLayouts
  /\ faults = MaxFaults
  /\ InitProgram

\* Steps of an invocation once it is running, and of the server.
Step(c) ==
  \/ ConnectSettled(c)
  \/ Validate(c)
  \/ ProbeSent(c)
  \/ FsOpen(c)
  \/ FsSearch(c)
  \/ FsFetch(c)
  \/ ConnectAllImapDone(c)
  \/ ConnectAllSmtpDone(c)
  \/ DisconnectAllImapDone(c)
  \/ DisconnectAllSmtpDone(c)

ServerStep == \E k \in ClientIds : ImapReady(k) \/ ImapError(k) \/ ImapEnd(k)

\* The transport hands over one request at a time (slot 1 only).
Next ==
  \/ InvokeSearch(1, BOOLEAN, LightDates, LightDates)
  \/ InvokeConnectAll(1)
  \/ InvokeDisconnectAll(1)
  \/ Step(1)
  \/ Return(1)
  \/ ServerStep

Spec == Init /\ [][Next]_vars

\* Pipelined transport: requests arrive while others are pending, so the
\* handlers interleave at their awaits.  NumCalls requests arrive in all.
InitConc ==
  /\ tz = 8
  /\ now = WallInstant(5, 0)
  /\ srvInbox = InboxOf(0)
  /\ srvSent = SentOf(0)
  /\ srvExists = {"INBOX.Sent"}
  /\ faults = MaxFaults
  /\ InitProgram

\* The mailboxes of this server are empty, so a search never reaches its
\* fetch step.
NextConc ==
  \/ \E c \in Calls :
        \/ InvokeSearch(c, {TRUE}, {EmptyStr}, {EmptyStr})
        \/ InvokeConnectAll(c)
        \/ InvokeDisconnectAll(c)
        \/ EnsureWaitPoll(c)
        \/ ConnectSettled(c)
        \/ Validate(c)
        \/ ProbeSent(c)
        \/ FsOpen(c)
        \/ FsSearch(c)
        \/ ConnectAllImapDone(c)
        \/ ConnectAllSmtpDone(c)
        \/ DisconnectAllImapDone(c)
        \/ DisconnectAllSmtpDone(c)
  \/ ServerStep

SpecConc == InitConc /\ [][NextConc]_vars

\* Date-rich searches, one request at a time on a server without faults:
\* every zone, messages around the bounds of day 2 and without a date
\* attribute, bounds in every format.
LastSec == 24 * 60 * 60 - 1
Hour23  == 23 * 60 * 60
RichAttrs ==
  {Attr(FALSE, 0)} \cup
  {Attr(TRUE, t) : t \in {WallInstant(1, LastSec), WallInstant(2, 0),
                          WallInstant(2, Hour23), WallInstant(3, 0)}}
RichStarts == {EmptyStr, Ymd(2), YmdThms(2, 0), InvalidStr}
RichEnds   == {EmptyStr, Ymd(2), DMonY(2), YmdThms(2, Hour23), InvalidStr}

InitDates ==
  /\ tz \in TZOffsets
  /\ now = WallInstant(5, 0)
  /\ srvInbox \in Boxes(MaxInbox, RichAttrs)
  /\ srvSent \in {SentOf(n) : n \in 0..MaxSent}
  /\ srvExists = {"Sent"}
  /\ faults = 0
  /\ InitProgram

NextDates ==
  \/ InvokeSearch(1, {TRUE}, RichStarts, RichEnds)
  \/ \E k \in ClientIds : ImapReady(k)
  \/ ConnectSettled(1)
  \/ Validate(1)
  \/ ProbeSent(1)
  \/ FsOpen(1)
  \/ FsSearch(1)
  \/ FsFetch(1)
  \/ Return(1)

SpecDates == InitDates /\ [][NextDates]_vars

\* search_unreplied_from_sender, one request at a time on a server without
\* faults.  INBOX holds a message M from the correspondent and possibly a
\* second message, from or to the correspondent; the sent folder holds at
\* most one message to the correspondent.
Day1Noon  == WallInstant(1, Noon)
Day2Noon  == WallInstant(2, Noon)
Day3Noon  == WallInstant(3, Noon)
Day10Noon == WallInstant(10, Noon)
ReceivedSubjects == {SubjProjectX, SubjReProject, SubjHi, SubjEmpty}
OtherSubjects ==
  {SubjReProject, SubjThread, SubjReHi, SubjEmpty, SubjOther, SubjSwapped}
OtherDates == {Day1Noon, Day3Noon, Day10Noon}
ReceivedM(subj) ==
  SrvMail(1, TRUE, Day2Noon, "from", subj, <<Sender>>, <<Me>>, <<>>)
InboxSecond(d, subj, t) ==
  IF d = "from"
  THEN SrvMail(2, TRUE, t, d, subj, <<Sender>>, <<Me>>, <<>>)
  ELSE SrvMail(2, TRUE, t, d, subj, <<Bob>>, <<Sender>>, <<Me>>)
SentS(subj, t) ==
  SrvMail(1, TRUE, t, "to", subj, <<Me>>, <<Sender>>, <<>>)
UnrepliedEnds == {EmptyStr, Ymd(5)}

InitUnreplied ==
  /\ tz = 8
  /\ now = WallInstant(12, 0)
  /\ srvInbox \in
       {<<ReceivedM(sm)>> : sm \in ReceivedSubjects} \cup
       {<<ReceivedM(sm), InboxSecond(d, so, t)>> :
          sm \in ReceivedSubjects, d \in {"from", "to"},
          so \in OtherSubjects, t \in OtherDates}
  /\ srvSent \in {<<>>} \cup {<<SentS(so, t)>> : so \in OtherSubjects,
                                                  t \in OtherDates}
  /\ srvExists = {"Sent"}
  /\ faults = 0
  /\ InitProgram

NextUnreplied ==
  \/ InvokeUnreplied(1, {TRUE}, {EmptyStr}, UnrepliedEnds)
  \/ \E k \in ClientIds : ImapReady(k)
  \/ ConnectSettled(1)
  \/ Validate(1)
  \/ ProbeSent(1)
  \/ FsOpen(1)
  \/ FsSearch(1)
  \/ FsFetch(1)
  \/ Return(1)

SpecUnreplied == InitUnreplied /\ [][NextUnreplied]_vars

\* Two searches pending at the same time on a server without faults whose
\* INBOX and sent folder hold one message each.
InitOverlap ==
  /\ tz = 8
  /\ now = WallInstant(5, 0)
  /\ srvInbox = InboxOf(1)
  /\ srvSent = SentOf(1)
  /\ srvExists = {"INBOX.Sent"}
  /\ faults = 0
  /\ InitProgram

NextOverlap ==
  \/ \E c \in Calls :
        \/ InvokeSearch(c, {TRUE}, {EmptyStr}, {EmptyStr})
        \/ EnsureWaitPoll(c)
        \/ ConnectSettled(c)
        \/ Validate(c)
        \/ ProbeSent(c)
        \/ FsOpen(c)
        \/ FsSearch(c)
        \/ FsFetch(c)
  \/ \E k \in ClientIds : ImapReady(k)

SpecOverlap == InitOverlap /\ [][NextOverlap]_vars


\* send_email and reply_to_email, one request at a time.  INBOX holds the
\* message that is replied to, from the correspondent, with its recipients.
OriginalSubjects == {SubjHi, SubjReHi}
OriginalTo == {<<Me>>, <<Bob>>, <<Me, Bob>>}
OriginalCc == {<<>>, <<Bob>>, <<Carol>>}
Original(subj, to, cc) ==
  SrvMail(1, TRUE, Day2Noon, "from", subj, <<Sender>>, to, cc)
ReplyUids == {1, 2, NotANumber}

InitSend ==
  /\ tz = 8
  /\ now = WallInstant(5, 0)
  /\ srvInbox \in {<<Original(subj, to, cc)>> :
                     subj \in OriginalSubjects, to \in OriginalTo, cc \in OriginalCc}
  /\ srvSent = <<>>
  /\ srvExists = {"Sent"}
  /\ faults = MaxFaults
  /\ InitProgram

NextSend ==
  \/ GetConnectionStatus(1)
  \/ InvokeSend(1, BOOLEAN)
  \/ InvokeReply(1, ReplyUids)
  \/ ConnectSettled(1)
  \/ SmtpConnectSettled(1)
  \/ SendCheck(1)
  \/ ReplySmtp(1)
  \/ ReplyCheck(1)
  \/ ReplyGet(1)
  \/ ReplyOpen(1)
  \/ SendSettled(1)
  \/ Saving(1)
  \/ Return(1)
  \/ ServerStep

SpecSend == InitSend /\ [][NextSend]_vars

\* The federated search tools, one request at a time on a server without
\* faults whose mailboxes hold at most one message each.
FederatedTools ==
  {"search_by_subject", "search_by_recipient", "search_unread_from_sender"}

InitTools ==
  /\ tz = 8
  /\ now = WallInstant(12, 0)
  /\ srvInbox \in {<<>>, <<ReceivedM(SubjProjectX)>>, <<ReceivedM(SubjHi)>>}
  /\ srvSent \in {<<>>, <<SentS(SubjReHi, Day3Noon)>>}
  /\ srvExists \in {{}, {"Sent"}}
  /\ faults = 0
  /\ InitProgram

NextTools ==
  \/ InvokeSearch(1, BOOLEAN, LightDates, LightDates)
  \/ InvokeFederated(1, FederatedTools, LightDates, LightDates)
  \/ \E k \in ClientIds : ImapReady(k)
  \/ ConnectSettled(1)
  \/ Validate(1)
  \/ ProbeSent(1)
  \/ FsOpen(1)
  \/ FsSearch(1)
  \/ FsFetch(1)
  \/ Return(1)

SpecTools == InitTools /\ [][NextTools]_vars

\* Searches one after the other while the clock of the process advances.
\* INBOX holds one message, with or without a date attribute.
ClockEnd == WallInstant(7, 0)

\* Time passes.
Tick ==
  /\ now < ClockEnd
  /\ now' = now + DayMs
  /\ UNCHANGED <<tz, srvInbox, srvSent, srvExists, faults, imapClient,
                 smtpClient, isInitializing, clients, nClients, pc, tool, args,
                 loc, result>>

NoneRunning == \A c \in Calls : pc[c] \in {"idle", "done"}

InitClock ==
  /\ tz = 8
  /\ now = WallInstant(5, 0)
  /\ srvInbox \in Boxes(1, {Attr(FALSE, 0), Attr(TRUE, WallInstant(2, 0))})
  /\ srvSent = SentOf(1)
  /\ srvExists = {"Sent"}
  /\ faults = 0
  /\ InitProgram

NextClock ==
  \/ \E c \in Calls :
        \/ NoneRunning /\ InvokeSearch(c, {TRUE}, {EmptyStr}, {EmptyStr})
        \/ ConnectSettled(c)
        \/ Validate(c)
        \/ ProbeSent(c)
        \/ FsOpen(c)
        \/ FsSearch(c)
        \/ FsFetch(c)
  \/ \E k \in ClientIds : ImapReady(k)
  \/ Tick

SpecClock == InitClock /\ [][NextClock]_vars

\* search_by_sender, one request at a time on a server without faults,
\* over messages some of which the mail parser throws on.
MailForms(m) == {m, Malformed(m)}
ParseSubjects == {SubjProjectX, SubjEmpty}

InitParse ==
  /\ tz = 8
  /\ now = WallInstant(12, 0)
  /\ srvInbox \in
       {<<>>} \cup
       {<<m1>> : m1 \in UNION {MailForms(ReceivedM(sj)) : sj \in ParseSubjects}} \cup
       {<<m1, m2>> :
          m1 \in UNION {MailForms(ReceivedM(sj)) : sj \in ParseSubjects},
          m2 \in MailForms(InboxSecond("from", SubjHi, Day3Noon))}
  /\ srvSent \in {<<>>, <<Malformed(SrvMail(1, TRUE, Day1Noon, "from", SubjHi,
                                            <<Sender, Bob>>, <<Me>>, <<>>))>>}
  /\ srvExists = {"Sent"}
  /\ faults = 0
  /\ InitProgram

NextParse ==
  \/ InvokeSearch(1, {TRUE}, LightDates, LightDates)
  \/ \E k \in ClientIds : ImapReady(k)
  \/ ConnectSettled(1)
  \/ Validate(1)
  \/ ProbeSent(1)
  \/ FsOpen(1)
  \/ FsSearch(1)
  \/ FsFetch(1)
  \/ Return(1)

SpecParse == InitParse /\ [][NextParse]_vars

\* send_email requests that arrive while earlier ones are still pending.
InitPipelinedSend ==
  /\ tz = 8
  /\ now = WallInstant(5, 0)
  /\ srvInbox = <<>>
  /\ srvSent = <<>>
  /\ srvExists = {"Sent"}
  /\ faults = MaxFaults
  /\ InitProgram

NextPipelinedSend ==
  \/ \E c \in Calls :
        \/ InvokeSend(c, {TRUE})
        \/ SmtpConnectSettled(c)
        \/ SendCheck(c)
        \/ SendSettled(c)
        \/ EnsureWaitPoll(c)
        \/ ConnectSettled(c)
        \/ Saving(c)
        \/ Return(c)
  \/ \E k \in ClientIds : ImapReady(k)

SpecPipelinedSend == InitPipelinedSend /\ [][NextPipelinedSend]_vars

\* search_unreplied_from_sender over one received message and one sent
\* message whose subjects have words in common, the sent one dated before
\* the received one, the day after, seven days after or eight days after.
Day9Noon == WallInstant(9, Noon)
WindowReceived == {SubjProjectX, SubjBudget}
WindowSent == {SubjSwapped, SubjNotes, SubjMeeting, SubjReBudget}
WindowDates == {Day1Noon, Day3Noon, Day9Noon, Day10Noon}

InitWindow ==
  /\ tz = 8
  /\ now = WallInstant(12, 0)
  /\ srvInbox \in {<<ReceivedM(sm)>> : sm \in WindowReceived}
  /\ srvSent \in {<<>>} \cup {<<SentS(so, t)>> : so \in WindowSent,
                                                  t \in WindowDates}
  /\ srvExists = {"Sent"}
  /\ faults = 0
  /\ InitProgram

SpecWindow == InitWindow /\ [][NextUnreplied]_vars

\* search_unreplied_from_sender over messages of one conversation, whose
\* subjects carry no, one or two reply markers.
MarkerSubjects == {SubjHi, SubjReHi, SubjReReHi, SubjReProject}

InitMarkers ==
  /\ tz = 8
  /\ now = WallInstant(12, 0)
  /\ srvInbox \in {<<ReceivedM(sm)>> : sm \in MarkerSubjects}
  /\ srvSent \in {<<>>} \cup {<<SentS(so, t)>> : so \in MarkerSubjects,
                                                  t \in {Day1Noon, Day3Noon}}
  /\ srvExists = {"Sent"}
  /\ faults = 0
  /\ InitProgram

SpecMarkers == InitMarkers /\ [][NextUnreplied]_vars

\* Pipelined searches on a server with empty mailboxes whose connects may
\* fail.  The event loop runs every continuation that is ready, and a
\* connect attempt ends by 'ready' or by 'error' (connTimeout, authTimeout).
NextGuard ==
  \/ \E c \in Calls :
        \/ InvokeSearch(c, {TRUE}, {EmptyStr}, {EmptyStr})
        \/ EnsureWaitPoll(c)
        \/ ConnectSettled(c)
        \/ Validate(c)
        \/ ProbeSent(c)
        \/ FsOpen(c)
        \/ FsSearch(c)
  \/ \E k \in ClientIds : ImapReady(k) \/ ImapError(k)

SpecGuard ==
  /\ InitConc
  /\ [][NextGuard]_vars
  /\ \A c \in Calls : WF_vars(ConnectSettled(c)) /\ WF_vars(EnsureWaitPoll(c))
  /\ \A k \in ClientIds : WF_vars(ImapReady(k) \/ ImapError(k))

\* A session of searches and accesses by uid, one request at a time.  INBOX
\* and the sent folder each hold a message with uid 1.
SessionUids == {1, 2, NotANumber}

InitSession ==
  /\ tz = 8
  /\ now = WallInstant(5, 0)
  /\ srvInbox = <<ReceivedM(SubjProjectX)>>
  /\ srvSent = <<SentS(SubjReProject, Day3Noon)>>
  /\ srvExists \in {{}, {"Sent"}}
  /\ faults = MaxFaults
  /\ InitProgram

NextSession ==
  \/ InvokeSearch(1, {TRUE}, {EmptyStr}, {EmptyStr})
  \/ InvokeGetMessage(1, SessionUids)
  \/ ConnectSettled(1)
  \/ Validate(1)
  \/ ProbeSent(1)
  \/ FsOpen(1)
  \/ FsSearch(1)
  \/ FsFetch(1)
  \/ HandleGetMessage(1)
  \/ InvokeDelete(1, SessionUids)
  \/ DeleteCheck(1)
  \/ DeleteSettled(1)
  \/ Return(1)
  \/ ServerStep

SpecSession == InitSession /\ [][NextSession]_vars

\* reply_to_email, one request at a time, when INBOX and a sent folder hold
\* messages with the same uid or with different uids.
SentCopy(u) ==
  SrvMail(u, TRUE, Day3Noon, "to", SubjReProject, <<Me>>, <<Sender>>, <<>>)

InitFind ==
  /\ tz = 8
  /\ now = WallInstant(5, 0)
  /\ srvInbox = <<Original(SubjHi, <<Me>>, <<>>)>>
  /\ srvSent \in {<<>>, <<SentCopy(2)>>, <<SentCopy(1), SentCopy(2)>>}
  /\ srvExists \in {{"Sent"}, {"Sent Messages"}}
  /\ faults = MaxFaults
  /\ InitProgram

SpecFind == InitFind /\ [][NextSend]_vars

\* open_mailbox, one request at a time, with and without a sent folder.
OpenNames == {"INBOX", "Sent", "Sent Messages"}

InitOpen ==
  /\ tz = 8
  /\ now = WallInstant(5, 0)
  /\ srvInbox = <<ReceivedM(SubjProjectX)>>
  /\ srvSent = <<SentS(SubjReProject, Day3Noon)>>
  /\ srvExists \in {{}, {"Sent"}, {"Sent", "Sent Messages"}}
  /\ faults = MaxFaults
  /\ InitProgram

NextOpen ==
  \/ InvokeOpenMailbox(1, OpenNames, BOOLEAN, BOOLEAN)
  \/ ConnectSettled(1)
  \/ OpenMain(1)
  \/ OpenSentProbe(1)
  \/ OpenReopen(1)
  \/ Return(1)
  \/ ServerStep

SpecOpen == InitOpen /\ [][NextOpen]_vars

\* =============================================================== properties
DoneSearch(c) == pc[c] = "done" /\ result[c].kind = "search"
EntryNames(entries) == [i \in DOMAIN entries |-> entries[i].mailbox]
UidsFrom(messages, mailbox) ==
  {messages[i].uid : i \in {j \in DOMAIN messages :
                              messages[j].sourceMailbox = mailbox}}
ServerUids(mailbox) == {m.uid : m \in Range(MailboxContent(mailbox))}
NoDatesAsked(c) ==
  args[c].startDate.fmt = "empty" /\ args[c].endDate.fmt = "empty"

\* C1: partial-failure isolation.  A federated search result has one entry
\* per candidate mailbox, in order; an entry of a mailbox that failed has a
\* non-empty error, no matching UIDs and a message count of 0, and adds no
\* message; every mailbox that did not fail contributes its messages (all
\* the messages the server holds for it when no date range is asked), so a
\* failure in one mailbox never aborts the search of the others.
InvPartialFailureIsolation ==
  \A c \in Calls : DoneSearch(c) =>
    LET r == result[c] IN
    /\ EntryNames(r.mailboxesSearched) = loc[c].mailboxesToSearch
    /\ \A i \in DOMAIN r.mailboxesSearched :
         LET e == r.mailboxesSearched[i] IN
         IF e.error # <<>>
         THEN /\ e.matchingUIDs = <<>>
              /\ e.messageCount = 0
              /\ UidsFrom(r.messages, e.mailbox) = {}
         ELSE /\ Range(e.matchingUIDs) = UidsFrom(r.messages, e.mailbox)
              /\ e.messageCount = Len(e.matchingUIDs)
              /\ NoDatesAsked(c) =>
                    UidsFrom(r.messages, e.mailbox) = ServerUids(e.mailbox)

\* One mailbox failed and the other one delivered its messages.
WitPartialFailureIsolation ==
  /\ DoneSearch(1)
  /\ \E i, j \in DOMAIN result[1].mailboxesSearched :
        /\ result[1].mailboxesSearched[i].error # <<>>
        /\ result[1].mailboxesSearched[j].error = <<>>
        /\ result[1].mailboxesSearched[j].messageCount > 0
        /\ UidsFrom(result[1].messages, result[1].mailboxesSearched[j].mailbox)
             = ServerUids(result[1].mailboxesSearched[j].mailbox)

\* C2: in every federated search result totalMatches equals the length of
\* the messages list, with or without a date range.
InvTotalMatchesIsLength ==
  \A c \in Calls : DoneSearch(c) =>
    result[c].totalMatches = Len(result[c].messages)

\* The date range removed some of the raw hits and kept others.
WitTotalMatchesIsLength ==
  /\ DoneSearch(1)
  /\ ~NoDatesAsked(1)
  /\ result[1].totalMatches > 0
  /\ result[1].totalMatches < RawHits(result[1].mailboxesSearched)

\* The date a fetched message carries in a result, and the instant a reader
\* of the result takes it for (the date is a wall-clock reading in the zone
\* of the process).
StoredDate(m) == ToLocaleStringZhCN(m.date)
ReadInstant(d) == d.day * DayMs + d.sec * SecMs - tz * HourMs

\* The instant a bound names: a date-only endDate names the last millisecond
\* of its calendar day; any other bound names what Date makes of it.
BoundParses(s) == s.fmt \notin {"empty", "invalid"}
StartInstant(s) == NewDate(s, tz).t
EndInstant(s) ==
  IF s.fmt \in {"ymd", "dMonY"}
  THEN s.day * DayMs + (DayMs - 1) - tz * HourMs
  ELSE NewDate(s, tz).t

\* The messages with a date attribute that a search met in the mailboxes it
\* searched without error: <<entry, message>> pairs.
DatedHits(c) ==
  {<<e, m>> \in Range(result[c].mailboxesSearched) \X
               (Range(srvInbox) \cup Range(srvSent)) :
      /\ e.error = <<>>
      /\ m \in Range(MailboxContent(e.mailbox))
      /\ m.hasDate}
Kept(e, m) == m.uid \in Range(e.matchingUIDs)

\* C3: date-range semantics.  With both bounds parseable, a message with a
\* date d is in the result exactly when startDate <= d <= endDate, both ends
\* included, where a date-only endDate stands for the end of its day; so
\* totalMatches counts exactly the messages inside the range.
CexDateRangeIff ==
  \A c \in Calls :
    (DoneSearch(c) /\ BoundParses(args[c].startDate)
                   /\ BoundParses(args[c].endDate)) =>
      \A h \in DatedHits(c) :
        Kept(h[1], h[2]) <=>
          /\ StartInstant(args[c].startDate) <= ReadInstant(StoredDate(h[2]))
          /\ ReadInstant(StoredDate(h[2])) <= EndInstant(args[c].endDate)

\* C4: end-of-day inference.  With a date-only endDate and no startDate, a
\* message dated on the day endDate names, at whatever time of that day, is
\* in the result.
CexEndOfDayInference ==
  \A c \in Calls :
    (DoneSearch(c) /\ isDateOnly(args[c].endDate)
                   /\ args[c].startDate.fmt = "empty") =>
      \A h \in DatedHits(c) :
        StoredDate(h[2]).day = args[c].endDate.day => Kept(h[1], h[2])

\* C5: missing-date tolerance.  A fetched message that has no date is in
\* the result whatever startDate and endDate are.
CexMissingDateKept ==
  \A c \in Calls : DoneSearch(c) =>
    \A e \in Range(result[c].mailboxesSearched) :
      e.error = <<>> =>
        \A m \in Range(MailboxContent(e.mailbox)) :
          ~m.hasDate => Kept(e, m)

\* C6: the messages of a federated search result are in descending order of
\* date: each message's date is at or after the date of the message that
\* follows it, a message without a date counting as the earliest.
DateOf(msg) ==
  IF msg.date.fmt = "empty" THEN 0
  ELSE msg.date.day * DayMs + msg.date.sec * SecMs

Discovered(c) ==
  /\ tool[c] = "search_by_sender"
  /\ pc[c] \in {"fs_open", "fs_search", "fs_fetch", "done"}
  /\ loc[c].probes # <<>>

InvCandidateDiscovery ==
  \A c \in Calls : Discovered(c) =>
    LET p == loc[c].probes
        n == Len(loc[c].probes)
        cand == loc[c].mailboxesToSearch
    IN  /\ n <= Len(COMMON_SENT_MAILBOX_NAMES)
        /\ \A i \in 1..n : p[i].name = COMMON_SENT_MAILBOX_NAMES[i]
        /\ \A i \in 1..(n - 1) : ~p[i].ok
        /\ IF p[n].ok
           THEN cand = <<"INBOX", p[n].name>>
           ELSE n = Len(COMMON_SENT_MAILBOX_NAMES) /\ cand = <<"INBOX">>
        /\ faults = MaxFaults =>
              \A i \in 1..n : p[i].ok <=> (p[i].name \in srvExists)
        /\ DoneSearch(c) => EntryNames(result[c].mailboxesSearched) = cand

\* The second name opened, and a later name that exists was not tried.
WitCandidateDiscovery ==
  /\ DoneSearch(1)
  /\ Len(loc[1].probes) = 2
  /\ loc[1].probes[2].ok
  /\ "Sent_zh" \in srvExists
  /\ EntryNames(result[1].mailboxesSearched) = <<"INBOX", "Sent">>

\* C8: a search whose discovery found no sent folder still returns a search
\* result, never an error; it covers INBOX only, and the warning is present
\* exactly when no sent folder opened.
InvWarningIffNoSent ==
  \A c \in Calls :
    (tool[c] = "search_by_sender" /\ pc[c] = "done" /\ loc[c].probes # <<>>) =>
      /\ result[c].kind = "search"
      /\ (result[c].warning # "") <=>
            (\A i \in DOMAIN loc[c].probes : ~loc[c].probes[i].ok)
      /\ (result[c].warning # "") =>
            EntryNames(result[c].mailboxesSearched) = <<"INBOX">>

\* No sent folder exists; INBOX was searched and its messages are returned
\* with the warning.
WitWarningIffNoSent ==
  /\ DoneSearch(1)
  /\ srvExists = {}
  /\ result[1].warning # ""
  /\ result[1].mailboxesSearched[1].error = <<>>
  /\ result[1].totalMatches > 0

\* C9: a search invocation for which no IMAP connection was ever established
\* returns an error string and no search result.
CexConnectionFailureFatal ==
  \A c \in Calls :
    (/\ tool[c] = "search_by_sender"
     /\ pc[c] = "done"
     /\ \A k \in ClientIds : clients[k].promise # "resolved") =>
      result[c].kind = "error"

\* C10: at most one IMAP connect is in progress, and at most one invocation
\* is inside the connect step of ensureIMAPConnection.
InvSingleConnect ==
  /\ Cardinality({k \in ClientIds : clients[k].promise = "pending"}) <= 1
  /\ Cardinality({c \in Calls : pc[c] = "connecting"}) <= 1

\* A connect is in progress and another invocation that needs the
\* connection waits for it.
WitSingleConnect ==
  \E c, d \in Calls :
    /\ pc[c] = "connecting"
    /\ clients[loc[c].awaiting].promise = "pending"
    /\ pc[d] = "ensureWait"

\* ------------------------------------------ search_unreplied_from_sender
DoneUnreplied(c) == pc[c] = "done" /\ result[c].kind = "unreplied"
\* The two lists the handler hands to the reply detection.
FromSenderMessages(c) == loc[c].fromResult.messages
ToSenderMessages(c) == SearchResult(loc[c], tz).messages
Normalized(msg) == toLowerCase(cleanReplySubject(msg.subject))
Later(S, M) == DateOf(S) > DateOf(M)

\* C11: reply verdict.  A received message M is treated as replied (left out
\* of the unreplied output) exactly when some sent message S dated strictly
\* after M has (1) the same non-empty normalized subject, or (2) a normalized
\* subject that properly contains M's, M's being longer than 3 characters,
\* or (3) a date at most 7 days after M's and a similar content; with no
\* such S, M is reported as unreplied.
ExactClause(M, S) == Normalized(S) = Normalized(M) /\ Normalized(M) # <<>>
ThreadClause(M, S) ==
  /\ Len(Normalized(M)) > 3
  /\ includes(Normalized(S), Normalized(M))
  /\ Normalized(S) # Normalized(M)
WindowClause(M, S) ==
  /\ DateOf(S) <= DateOf(M) + 7 * DayMs
  /\ isLikelyReplyByContent(M, S)
ReplyVerdict(M, sent) ==
  \E S \in Range(sent) :
    Later(S, M) /\ (ExactClause(M, S) \/ ThreadClause(M, S) \/ WindowClause(M, S))

InvReplyVerdict ==
  \A c \in Calls : DoneUnreplied(c) =>
    \A M \in Range(FromSenderMessages(c)) :
      (M \notin Range(result[c].messages)) <=> ReplyVerdict(M, ToSenderMessages(c))

\* A sent message with the same normalized subject, dated before the
\* received one: the received message is reported as unreplied.
WitReplyVerdict ==
  \E c \in Calls :
    /\ DoneUnreplied(c)
    /\ \E M \in Range(FromSenderMessages(c)), S \in Range(ToSenderMessages(c)) :
         /\ ExactClause(M, S)
         /\ ~Later(S, M)
         /\ M \in Range(result[c].messages)

\* The messages the server holds, with the subject as fetchMessages stores it.
StoredSubject(m) == IF m.subject = <<>> THEN SubjNoSubject ELSE m.subject
StoredNormalized(m) == toLowerCase(cleanReplySubject(StoredSubject(m)))
ReportedUids(c) == {m.uid : m \in Range(result[c].messages)}

\* C12: exact-subject reply detection, end to end.  Whenever the sent
\* messages obtained for the sender include a message dated after a received
\* message M whose subject equals M's, non-empty, once a leading reply marker
\* is stripped and case is ignored, M is not in the unreplied output, however
\* many days lie between the two; without a date range this holds for every
\* such pair of messages held by the server in INBOX and the sent folder.
InvExactSubjectReplied ==
  \A c \in Calls : DoneUnreplied(c) =>
    /\ \A M \in Range(FromSenderMessages(c)), S \in Range(ToSenderMessages(c)) :
         (Later(S, M) /\ ExactClause(M, S)) => M \notin Range(result[c].messages)
    /\ NoDatesAsked(c) =>
         \A M \in Range(Matching("FROM", srvInbox)),
            S \in Range(Matching("TO", srvSent)) :
           (/\ S.date > M.date
            /\ StoredNormalized(S) = StoredNormalized(M)
            /\ StoredNormalized(M) # <<>>) => M.uid \notin ReportedUids(c)

\* "Hi" received, "Re: Hi" sent eight days later: reported as replied.
WitExactSubjectReplied ==
  \E c \in Calls :
    /\ DoneUnreplied(c)
    /\ \E M \in Range(FromSenderMessages(c)), S \in Range(ToSenderMessages(c)) :
         /\ M.subject = SubjHi
         /\ S.subject = SubjReHi
         /\ DateOf(S) = DateOf(M) + 8 * DayMs
         /\ M \notin Range(result[c].messages)

\* C13: search_unreplied_from_sender returns exactly the unreplied subset of
\* the FROM-sender search.  Every returned message is one of the messages of
\* that search, with its uid and source mailbox (a message from the sender
\* that the server holds in that mailbox), and has no reply by the verdict;
\* every message of that search without a reply is returned, once; and
\* totalMatches is the number of messages returned.
InvUnrepliedSubset ==
  \A c \in Calls : DoneUnreplied(c) =>
    LET out == result[c].messages
        unreplied == {M \in Range(FromSenderMessages(c)) :
                        ~ReplyVerdict(M, ToSenderMessages(c))}
    IN  /\ Range(out) = unreplied
        /\ Len(out) = Cardinality(unreplied)
        /\ result[c].totalMatches = Len(out)
        /\ \A i \in DOMAIN out :
             \E m \in Range(Matching("FROM", MailboxContent(out[i].sourceMailbox))) :
               m.uid = out[i].uid

\* Two messages from the sender, one of them replied: one is returned.
WitUnrepliedSubset ==
  \E c \in Calls :
    /\ DoneUnreplied(c)
    /\ Len(FromSenderMessages(c)) = 2
    /\ result[c].totalMatches = 1
    /\ Len(result[c].messages) = 1

\* C14: only an outgoing reply counts.  A received message that is left out
\* of the unreplied output has a reply by the verdict among the messages
\* found in the sent folder; a message to the sender that lies in INBOX does
\* not make it count as replied.
OutgoingMessages(c) ==
  SelectSeq(ToSenderMessages(c), LAMBDA S : S.sourceMailbox # "INBOX")
CexOnlyOutgoingReply ==
  \A c \in Calls : DoneUnreplied(c) =>
    \A M \in Range(FromSenderMessages(c)) :
      (M \notin Range(result[c].messages)) => ReplyVerdict(M, OutgoingMessages(c))

\* C18: validation before any execution.  A search request without its
\* required sender argument is rejected with the error naming the argument
\* before anything is executed: the request never waits for a connection
\* attempt, and its result is that error.
MissingSender(c) ==
  /\ tool[c] \in {"search_by_sender", "search_unreplied_from_sender"}
  /\ pc[c] # "idle"
  /\ ~args[c].sender
CexValidationFirst ==
  \A c \in Calls : MissingSender(c) =>
    /\ pc[c] \notin {"connecting", "ensureWait"}
    /\ pc[c] = "done" => result[c] = ErrorResult("sender parameter is required")

\* C19: source tagging.  Every message of a search result carries as
\* sourceMailbox the mailbox whose search returned its uid and from which it
\* was fetched: the entry of that mailbox lists the uid, and the message is
\* the one the server holds under that uid in that mailbox.
HeldIn(m, mailbox) ==
  \E s \in Range(MailboxContent(mailbox)) :
    s.uid = m.uid /\ (s.hasDate => StoredDate(s) = m.date)
CexSourceTagging ==
  \A c \in Calls : DoneSearch(c) =>
    \A m \in Range(result[c].messages) :
      /\ \E e \in Range(result[c].mailboxesSearched) :
           e.mailbox = m.sourceMailbox /\ m.uid \in Range(e.matchingUIDs)
      /\ HeldIn(m, m.sourceMailbox)

\* C20: no duplicate entries.  No two messages of a search result have the
\* same source mailbox and the same uid.
InvNoDuplicateEntries ==
  \A c \in Calls : DoneSearch(c) =>
    \A i, j \in DOMAIN result[c].messages :
      (/\ result[c].messages[i].sourceMailbox = result[c].messages[j].sourceMailbox
       /\ result[c].messages[i].uid = result[c].messages[j].uid) => i = j

\* A result with the same uid from two mailboxes.
WitNoDuplicateEntries ==
  \E c \in Calls :
    /\ DoneSearch(c)
    /\ \E i, j \in DOMAIN result[c].messages :
         /\ result[c].messages[i].uid = result[c].messages[j].uid
         /\ result[c].messages[i].sourceMailbox = "INBOX"
         /\ result[c].messages[j].sourceMailbox # "INBOX"

\* ------------------------------------------------ send_email, reply_to_email
\* A reply that went out, and the message it answers as the handler read it.
Replied(c) ==
  /\ tool[c] = "reply_to_email"
  /\ pc[c] = "done"
  /\ result[c].kind = "sent"
OriginalOf(c) ==
  CHOOSE m \in Range(srvInbox) \cup Range(srvSent) : m.uid = args[c].originalUid
StartsWithRe(subject) ==
  Len(subject) >= 4 /\ SubSeq(subject, 1, 4) = <<"R", "e", ":", " ">>

\* C15: reply subject.  The subject of a reply is "Re: " followed by the
\* original subject, unless the original subject already starts with "Re: ":
\* then it is the original subject, unchanged.
CexReplySubject ==
  \A c \in Calls : Replied(c) =>
    result[c].mail.subject =
      IF StartsWithRe(StoredSubject(OriginalOf(c)))
      THEN StoredSubject(OriginalOf(c))
      ELSE <<"R", "e", ":", " ">> \o StoredSubject(OriginalOf(c))

\* C16: reply recipients.  The reply goes to the original sender; with
\* replyToAll its cc holds every address of the original to and cc except
\* the account's own and the original sender's, each once; without
\* replyToAll its cc is empty.
CexReplyRecipients ==
  \A c \in Calls : Replied(c) =>
    LET mail == result[c].mail
        orig == OriginalOf(c)
    IN  /\ mail.to = <<orig.from[1]>>
        /\ IF args[c].replyToAll
           THEN /\ Range(mail.cc) =
                     (Range(orig.to) \cup Range(orig.cc)) \ {Me, orig.from[1]}
                /\ \A i, j \in DOMAIN mail.cc : mail.cc[i] = mail.cc[j] => i = j
           ELSE mail.cc = <<>>

\* C17: a failed save is not fatal.  Once the SMTP send of send_email or
\* reply_to_email has succeeded, the tool returns the success payload with
\* the message id of that send, whether or not the copy could be saved and
\* whether or not an IMAP connection could be had for saving it.
InvSaveFailureNotFatal ==
  \A c \in Calls :
    (tool[c] \in {"send_email", "reply_to_email"} /\ pc[c] = "done" /\ loc[c].sent)
      => /\ result[c].kind = "sent"
         /\ result[c].messageId = loc[c].messageId
         /\ result[c].messageId \in MessageIds

\* A mail went out, no IMAP connection could be had for the copy, and the
\* tool returned the success payload.
WitSaveFailureNotFatal ==
  \E c \in Calls :
    /\ tool[c] = "send_email"
    /\ pc[c] = "done"
    /\ loc[c].sent
    /\ loc[c].saveError = "IMAP connection failed"
    /\ result[c].kind = "sent"

\* ------------------------------------------------- federated search tools
\* C21: empty result.  When a federated search tool matches nothing in any
\* mailbox it searched, its result is a search result, not an error, with
\* totalMatches 0 and the note that no messages were found.
MatchedNothing(c) ==
  /\ pc[c] = "done"
  /\ tool[c] \in FederatedTools \cup {"search_by_sender"}
  /\ loc[c].mailboxesSearched # <<>>
  /\ \A e \in Range(loc[c].mailboxesSearched) :
       e.error = <<>> /\ e.matchingUIDs = <<>>
CexEmptyResultNote ==
  \A c \in Calls : MatchedNothing(c) =>
    /\ result[c].kind = "search"
    /\ result[c].totalMatches = 0
    /\ result[c].note = "No messages found in any of the searched mailboxes"

\* ------------------------------------------------------ unparseable bounds
Unparseable(s) == s.fmt = "invalid"
EndExact(s) == s.fmt # "ymd" \/ tz >= 0

OpenedMailbox(c) == loc[c].mailboxesToSearch[loc[c].mbIdx]
CexNoOverlap ==
  \A c \in Calls :
    (pc[c] \in {"fs_search", "fs_fetch"} /\ imapClient # NoClient) =>
      clients[imapClient].selected = OpenedMailbox(c)

\* ------------------------------------------------------------ normalization
\* C24: normalization is deterministic.  Two searches that fetched the same
\* message of the server hold the same record for it, with the same date,
\* also when the server supplies no date attribute for the message.
SameRaw(m1, m2) == m1.uid = m2.uid /\ m1.sourceMailbox = m2.sourceMailbox
CexNormalizationDeterministic ==
  \A c1, c2 \in Calls : (DoneSearch(c1) /\ DoneSearch(c2)) =>
    \A m1 \in Range(result[c1].messages), m2 \in Range(result[c2].messages) :
      SameRaw(m1, m2) => m1 = m2

\* C25: parse failures are absorbed.  The fetch of a search is never
\* rejected because a message does not parse, and it returns one record for
\* every message the server delivered: with no date range asked, the result
\* holds exactly one message for every matching message of every mailbox,
\* and a message that did not parse is there with what its raw headers say.
InvParseFailureAbsorbed ==
  \A c \in Calls : DoneSearch(c) =>
    /\ \A e \in Range(result[c].mailboxesSearched) : e.error = <<>>
    /\ NoDatesAsked(c) =>
         \A e \in Range(result[c].mailboxesSearched) :
           LET held == Matching("FROM", MailboxContent(e.mailbox))
               got == SelectSeq(result[c].messages,
                                LAMBDA m : m.sourceMailbox = e.mailbox)
           IN  /\ Len(got) = Len(held)
               /\ e.messageCount = Len(held)
               /\ \A s \in Range(held) :
                    \E m \in Range(got) :
                      /\ m.uid = s.uid
                      /\ ~s.parses => /\ m.from = RawHeader(s.from)
                                      /\ m.subject # <<>>

\* A result that holds a message which parsed and one which did not.
WitParseFailureAbsorbed ==
  \E c \in Calls :
    /\ DoneSearch(c)
    /\ NoDatesAsked(c)
    /\ Len(result[c].messages) >= 2
    /\ \E s1, s2 \in Range(srvInbox) :
         /\ s1.parses /\ ~s2.parses
         /\ {s1.uid, s2.uid} \subseteq UidsFrom(result[c].messages, "INBOX")
    /\ \E m \in Range(result[c].messages) : m.subject = SubjParseFailed

\* C26: the SMTP connection is guarded as the IMAP one is.  A send_email
\* that arrives while another call's SMTP connect is in progress waits for
\* it: no call hands a message to the transport while the transport's
\* connect has not yet completed.
CexSmtpConnectGuarded ==
  \A c \in Calls : pc[c] = "sending" => smtpClient # "verifying"

\* S and M are related by nothing but words of their subjects: the
\* normalized subjects differ and neither contains the other.
TokenOnly(M, S) ==
  /\ Normalized(S) # Normalized(M)
  /\ ~includes(Normalized(S), Normalized(M))
  /\ ~includes(Normalized(M), Normalized(S))
LongWords(msg) == {w \in Range(split(Normalized(msg))) : Len(w) > 3}
SharedWords(M, S) ==
  Len(SelectSeq(split(Normalized(M)),
                LAMBDA w : Len(w) > 3 /\ w \in LongWords(S)))
WordsNeeded(M) ==
  LET n == Len(SelectSeq(split(Normalized(M)), LAMBDA w : Len(w) > 3))
      half == (n + 1) \div 2
  IN  IF half < 2 THEN half ELSE 2
InWindow(M, S) ==
  DateOf(M) < DateOf(S) /\ DateOf(S) <= DateOf(M) + 7 * 24 * 60 * 60 * 1000

\* C27: time window of the content-similarity strategy.  When every sent
\* message is related to a received message M by token overlap of the
\* subjects at most, M is left out of the unreplied output only if some sent
\* message S has M.date < S.date <= M.date + 7 days and shares with M at
\* least min(2, ceil(n/2)) words longer than 3 characters, n being the
\* number of such words in M's normalized subject; sent messages dated more
\* than 7 days after M do not make M replied.
InvTokenOverlapWindow ==
  \A c \in Calls : DoneUnreplied(c) =>
    \A M \in Range(FromSenderMessages(c)) :
      ( /\ \A S \in Range(ToSenderMessages(c)) : TokenOnly(M, S)
        /\ M \notin Range(result[c].messages) )
      => \E S \in Range(ToSenderMessages(c)) :
           /\ InWindow(M, S)
           /\ SharedWords(M, S) >= WordsNeeded(M)
           /\ SharedWords(M, S) > 0

\* A received message with four long words left out of the output because
\* of a sent message dated exactly seven days after it that shares two of
\* them.
WitTokenOverlapWindow ==
  \E c \in Calls :
    /\ DoneUnreplied(c)
    /\ \E M \in Range(FromSenderMessages(c)) :
         /\ ToSenderMessages(c) # <<>>
         /\ \A S \in Range(ToSenderMessages(c)) :
              /\ TokenOnly(M, S)
              /\ DateOf(S) = DateOf(M) + 7 * 24 * 60 * 60 * 1000
              /\ SharedWords(M, S) = 2
              /\ WordsNeeded(M) = 2
         /\ M \notin Range(result[c].messages)

\* C28: within the 7-day window subject containment counts in both
\* directions.  A received message M is left out of the unreplied output
\* whenever some sent message S dated within 7 days after M has a normalized
\* subject that contains M's or is contained in M's, the contained subject
\* being longer than 5 characters.
ContainedIn(inner, outer) ==
  Len(Normalized(inner)) > 5 /\ includes(Normalized(outer), Normalized(inner))
CexContainmentBothWays ==
  \A c \in Calls : DoneUnreplied(c) =>
    \A M \in Range(FromSenderMessages(c)), S \in Range(ToSenderMessages(c)) :
      (InWindow(M, S) /\ (ContainedIn(M, S) \/ ContainedIn(S, M)))
      => M \notin Range(result[c].messages)

\* C29: subject normalization strips every leading reply marker and the
\* white space around the subject.  For every message handed to the reply
\* detection the normalized subject does not begin with a reply marker and
\* normalizing it again changes nothing; so two subjects that differ only
\* in leading reply markers ("Re: Re: X" and "X") normalize to the same
\* value.
BeginsWithMarker(subject) == StripReplyMarker(subject) # subject
CexNormalizationIdempotent ==
  \A c \in Calls : DoneUnreplied(c) =>
    \A msg \in Range(FromSenderMessages(c)) \cup Range(ToSenderMessages(c)) :
      /\ ~BeginsWithMarker(cleanReplySubject(msg.subject))
      /\ cleanReplySubject(cleanReplySubject(msg.subject))
           = cleanReplySubject(msg.subject)

\* C30: postcondition of ensureIMAPConnection.  Whenever a call leaves
\* ensureIMAPConnection normally, after its own connect or after waiting in
\* the polling loop while another call's connect was in progress (also when
\* that connect then failed), the IMAP client is connected and authenticated.
ReturnsNormally(c) ==
  /\ pc[c] \in {"connecting", "ensureWait"}
  /\ pc'[c] = AfterEnsure(c)
CexEnsurePostcondition ==
  [][\A c \in Calls :
       ReturnsNormally(c) =>
         /\ imapClient' # NoClient
         /\ clients'[imapClient'].connected
         /\ clients'[imapClient'].authenticated]_vars

\* C31: the isInitializing guard is released whenever the connect attempt
\* settles, by success or by failure.  The flag is set only while some call
\* is inside the connect step, and every call that waits on the guard
\* eventually stops waiting.
LiveGuardReleased ==
  /\ [](isInitializing => \E c \in Calls : pc[c] = "connecting")
  /\ \A c \in Calls : (pc[c] = "ensureWait") ~> (pc[c] # "ensureWait")

\* A call that waited on the guard has left the polling loop after the
\* connect attempt it waited for was rejected.
WitGuardReleased ==
  \E c \in Calls :
    /\ tool[c] = "search_by_sender"
    /\ pc[c] = "validate"
    /\ ~isInitializing
    /\ imapClient # NoClient
    /\ clients[imapClient].promise = "rejected"

\* The entry of a mailbox whose openBox threw.
OpenFailed(e) ==
  /\ e.error # <<>>
  /\ e.error[2] \in {"Failed to open mailbox", "Not connected or authenticated",
                     "Cannot read properties of null"}
LastOpened(entries) ==
  LET ok == SelectSeq(entries, LAMBDA e : ~OpenFailed(e))
  IN  IF ok = <<>> THEN NoBox ELSE ok[Len(ok)].mailbox
HeldWithUid(mailbox, uid) ==
  {m \in Range(MailboxContent(mailbox)) : m.uid = uid}

CexDeleteInWriteMode ==
  \A c \in Calls :
    pc[c] = "dm_flags" =>
      /\ clients[imapClient].selected # NoBox
      /\ ~clients[imapClient].readOnly

\* COMMON_MAILBOX_NAMES: INBOX, then the sent-folder names.
COMMON_MAILBOX_NAMES == <<"INBOX">> \o COMMON_SENT_MAILBOX_NAMES
IsPrefix(a, b) == Len(a) <= Len(b) /\ a = SubSeq(b, 1, Len(a))
\* The names gone through after the mailbox that was open at the start.
NamesTried(l) ==
  LET listed == SelectSeq(l.tried, LAMBDA e : ~e.asCurrent)
  IN  [i \in DOMAIN listed |-> listed[i].name]
NotFound(c) ==
  /\ tool[c] = "reply_to_email"
  /\ pc[c] = "done"
  /\ result[c] = ErrorResult("Failed to reply to email: Original message not found in any mailbox")
\* Nothing has failed so far.
Untroubled == faults = MaxFaults

\* C34: reply_to_email resolves originalUid first in the mailbox that is
\* open, then in INBOX, then in each sent-folder name in the fixed order,
\* and replies to the first message found: the mailboxes it went through
\* are the open one followed by a prefix of that list, the reply answers
\* the message with the uid in the last of them, and, nothing having failed
\* on the way, none of the earlier ones holds the uid.  When the uid is in
\* none of them the call fails with the not-found error after going through
\* the whole list, and no mail is sent.
InvReplyFindOrder ==
  \A c \in Calls :
    /\ (tool[c] = "reply_to_email" /\ pc[c] \in {"sending", "saving", "done"})
       => /\ IsPrefix(NamesTried(loc[c]), COMMON_MAILBOX_NAMES)
          /\ \A i \in DOMAIN loc[c].tried : loc[c].tried[i].asCurrent => i = 1
    /\ (tool[c] = "reply_to_email" /\ pc[c] = "sending") =>
         LET t == loc[c].tried
             last == t[Len(t)].name
         IN  /\ t # <<>>
             /\ \E m \in HeldWithUid(last, args[c].originalUid) :
                  /\ MailboxExists(last)
                  /\ loc[c].mail = ComposeReply(NormalizeMessage(m, now),
                                                args[c].replyToAll)
             /\ Untroubled =>
                  \A i \in 1..(Len(t) - 1) :
                    \/ ~MailboxExists(t[i].name)
                    \/ HeldWithUid(t[i].name, args[c].originalUid) = {}
    /\ NotFound(c) =>
         /\ ~loc[c].sent
         /\ loc[c].mail = NoMail
         /\ NamesTried(loc[c]) = COMMON_MAILBOX_NAMES
         /\ Untroubled =>
              \A i \in DOMAIN loc[c].tried :
                \/ ~MailboxExists(loc[c].tried[i].name)
                \/ HeldWithUid(loc[c].tried[i].name, args[c].originalUid) = {}

\* A reply to uid 1 is on its way that answers the message of the sent
\* folder, which was open when the request arrived, although INBOX holds a
\* message with uid 1 as well.
WitReplyFindOrder ==
  \E c \in Calls :
    /\ tool[c] = "reply_to_email"
    /\ pc[c] = "sending"
    /\ args[c].originalUid = 1
    /\ loc[c].tried = <<Looked("Sent", TRUE)>>
    /\ loc[c].mail.to = <<Me>>
    /\ loc[c].mail.subject = ReplyPrefix \o SubjReProject
    /\ HeldWithUid("INBOX", 1) # {}

SendTool(c) == tool[c] \in {"send_email", "reply_to_email"}
\* The handler is inside saveSentMessage.
InSave(c) ==
  \/ pc[c] = "saving"
  \/ pc[c] \in {"connecting", "ensureWait"} /\ loc[c].mail # NoMail
\* The send of the call was issued and failed.
SendFailed(c) ==
  /\ SendTool(c)
  /\ pc[c] = "done"
  /\ loc[c].mail # NoMail
  /\ ~loc[c].sent

\* C35: ordering of send and save in send_email and reply_to_email.  The
\* SMTP send is issued before any attempt to save a copy, the save is
\* attempted only after the send succeeded, and when the send fails no copy
\* is saved and the tool returns an error.
InvSendBeforeSave ==
  \A c \in Calls : SendTool(c) =>
    /\ pc[c] = "sending" => ~loc[c].sent /\ loc[c].saveError = "not attempted"
    /\ InSave(c) => loc[c].sent /\ loc[c].messageId \in MessageIds
    /\ loc[c].saveError # "not attempted" => loc[c].sent
    /\ SendFailed(c) =>
         /\ result[c].kind = "error"
         /\ loc[c].saveError = "not attempted"

\* A send that failed: the tool returned an error and no save was attempted.
WitSendBeforeSave ==
  \E c \in Calls :
    /\ SendFailed(c)
    /\ tool[c] = "reply_to_email"
    /\ result[c] = ErrorResult("Failed to reply to email")
    /\ loc[c].saveError = "not attempted"

\* C36: the success payload of send_email and reply_to_email reports
\* sentFolderSaved = true only when the copy was actually saved to the sent
\* folder.
CexSentFolderSavedTruthful ==
  \A c \in Calls :
    (SendTool(c) /\ pc[c] = "done" /\ result[c].kind = "sent"
       /\ result[c].sentFolderSaved)
    => loc[c].saveError = ""

\* C37: SMTP connection state is truthful after a failed connect.  While
\* the SMTP client is one whose connect attempt failed, get_connection_status
\* does not report SMTP as connected, and no send_email hands a message to
\* that transport: the next send connects again.
CexSmtpStateTruthful ==
  \A c \in Calls :
    smtpClient = "failed" =>
      /\ (pc[c] = "done" /\ result[c].kind = "status") => ~result[c].smtpConnected
      /\ pc[c] # "sending"

\* C38: when handleOpenMailbox returns its results over a live connection,
\* the mailbox they name as currentlyOpen is the selected mailbox, whatever
\* happened while the sent folders were probed.  The selected mailbox is
\* read both ways: the one the connection has selected, or the one the
\* client records as currentBox; the results must agree with one of them.
CexCurrentlyOpenTruthful ==
  [][\A c \in Calls :
       (/\ pc[c] # "done"
        /\ pc'[c] = "done"
        /\ result'[c].kind = "opened"
        /\ isConnected(imapClient)') =>
         \/ clients'[imapClient].selected = result'[c].currentlyOpen
         \/ clients'[imapClient].currentBox = result'[c].currentlyOpen]_vars

\* C39: the state of every IMAP client object: a currentBox other than null
\* implies connected and authenticated; and a step in which the connection
\* ends, or in which disconnect() completes, leaves the client with
\* connected and authenticated false and currentBox null.
Reset(cl, k) ==
  ~cl[k].connected /\ ~cl[k].authenticated /\ cl[k].currentBox = NoBox

InvClientState ==
  /\ [](\A k \in ClientIds :
          clients[k].currentBox # NoBox =>
            clients[k].connected /\ clients[k].authenticated)
  /\ [][/\ \A k \in ClientIds :
             (clients[k].connected /\ ~clients'[k].connected) => Reset(clients', k)
        /\ \A c \in Calls :
             (pc[c] = "da_imap" /\ pc'[c] # "da_imap") =>
               Reset(clients', loc[c].awaiting)]_vars

\* disconnect() has completed on a client that had a mailbox open.
WitClientState ==
  \E c \in Calls, k \in ClientIds :
    /\ tool[c] = "disconnect_all"
    /\ pc[c] = "da_smtp" \/ pc[c] = "done"
    /\ imapClient = NoClient
    /\ clients[k].promise = "resolved"
    /\ Reset(clients, k)
    /\ faults = MaxFaults

\* C40: date round trip.  For every message of a search result that the
\* server gave a date, what new Date(message.date) makes of the stored
\* string in the zone of the process is the instant of the server's date,
\* to the second.
CexDateRoundTrip ==
  \A c \in Calls : DoneSearch(c) =>
    \A msg \in Range(result[c].messages) :
      \A m \in Range(MailboxContent(msg.sourceMailbox)) :
        (m.uid = msg.uid /\ m.hasDate) =>
          /\ NewDate(msg.date, tz).valid
          /\ NewDate(msg.date, tz).t = FloorDiv(m.date, SecMs) * SecMs

====
